---- MODULE Spec2Model ----
(***************************************************************************)
(* Model of the maiar-ai agent runtime core: the structured object         *)
(* retrieval protocol (getObject), the context chain, the pipeline         *)
(* execution loop with replanning, and the event queue / evaluation loop.  *)
(*                                                                         *)
(* Specifications:                                                         *)
(*   SpecGetObject  one getObject call against a nondeterministic model    *)
(*   Spec           the runtime: start/stop, producers, evaluation loops   *)
(*   SpecPipeline   one event through planning, execution and persistence  *)
(*   SpecChain      calls of pushToContextChain on a context chain         *)
(***************************************************************************)
EXTENDS Integers, Sequences, FiniteSets, TLC

VARIABLES
    \* ---- getObject (one call) ----
    goImpl,       \* which getObject: Runtime.getObject ("part_001") or getObject ("part_000")
    goConfig,     \* config.maxRetries: <<>> when unset, <<n>> when set
    goSchema,     \* the schema: the set of values schema.parse accepts
    go,           \* the call's locals and its outcome
    goLog,        \* every model invocation so far: [request, behaviour]
    \* ---- runtime ----
    world,          \* what the run is given: source version, plug-ins, model answers
    isRunning,      \* Runtime.isRunning
    eventQueue,     \* Runtime.eventQueue: event ids, head first
    currentContext, \* Runtime.currentContext: <<>> (undefined) or <<id>>
    contextChain,   \* contextChain of every AgentContext, by event id
    events,         \* producer side of every event: where its push stands
    loops,          \* every runEvaluationLoop invocation: its position and locals
    memory,         \* what the memory collaborator was asked to store
    hist,           \* observations: order of appends to the queue, of planning starts
    \* ---- registries and startup ----
    plugins,            \* PluginRegistry.plugins: Map id -> Plugin, in insertion order
    models,             \* ModelManager.models: Map id -> ModelProvider
    capabilityRegistry, \* ModelManager.capabilityRegistry
    capabilityAliases,  \* ModelManager.capabilityAliases: Map alias -> canonical id
    lastCall,           \* observation: the last call on a registry and its outcome
    startup             \* Runtime.init: its position and what it has done

goVars == <<goImpl, goConfig, goSchema, go, goLog>>
rtVars == <<world, isRunning, eventQueue, currentContext, contextChain, events,
            loops, memory, hist>>
mgrVars == <<plugins, models, capabilityRegistry, capabilityAliases, lastCall, startup>>
vars == <<goVars, rtVars, mgrVars>>

(***************************************************************************)
(* Bounds                                                                  *)
(***************************************************************************)
MaxValue == 2
MaxConfiguredRetries == 3

(***************************************************************************)
(* Small helpers                                                           *)
(***************************************************************************)
Last(s) == s[Len(s)]

(***************************************************************************)
(* Structured object retrieval: getObject                                  *)
(***************************************************************************)
DEFAULT_MAX_RETRIES == 3

Values == 1..MaxValue

\* A raw model response: text from which a JSON payload can be extracted and
\* parsed to `value`, text that does not parse, or the empty string.
Responses ==
    [syntax : {"json"}, value : Values] \cup {[syntax |-> "garbage", value |-> 0]}

EmptyResponse == [syntax |-> "empty", value |-> 0]

\* What one invocation of the text-generation capability does: it resolves
\* with a response or it throws.
Behaviours ==
    [kind : {"response"}, response : Responses]
        \cup {[kind |-> "throw", response |-> EmptyResponse]}

Schemas == {S \in SUBSET Values : S # {}}

RetryConfigs == {<<>>} \cup {<<n>> : n \in (-1)..MaxConfiguredRetries}

NoError == [kind |-> "none", attempt |-> -1]

\* schema.parse(JSON.parse(extractJson(response).trim())): the parsed value, or
\* the error thrown.
ParseResponse(schema, response, attempt) ==
    IF response.syntax # "json"
    THEN [ok |-> FALSE, value |-> 0,
          error |-> [kind |-> "SyntaxError", attempt |-> attempt]]
    ELSE IF response.value \notin schema
    THEN [ok |-> FALSE, value |-> 0,
          error |-> [kind |-> "ZodError", attempt |-> attempt]]
    ELSE [ok |-> TRUE, value |-> response.value, error |-> NoError]

\* const MAX_RETRIES = config?.maxRetries || 3   (Runtime.getObject)
\* const maxRetries = config?.maxRetries ?? 3    (getObject)
MaxRetries(impl, config) ==
    IF config = <<>> THEN DEFAULT_MAX_RETRIES
    ELSE IF impl = "part_001" /\ config[1] = 0 THEN DEFAULT_MAX_RETRIES
    ELSE config[1]

\* The for loop's test, and what follows the loop when the test fails:
\* Runtime.getObject falls off its end (returns undefined), getObject throws.
GetObjectLoopTest(impl, max, st) ==
    IF st.attempt < max THEN st
    ELSE IF impl = "part_001"
    THEN [st EXCEPT !.pc = "returned", !.result = <<>>]
    ELSE [st EXCEPT !.pc = "raised",
                    !.thrown = [kind |-> "Failed to get valid response after retries",
                                attempt |-> st.attempt]]

\* The state of a call when it reaches its first await (or its end).
GetObjectEnter(impl, config) ==
    GetObjectLoopTest(impl, MaxRetries(impl, config),
        [pc |-> "loop", attempt |-> 0,
         lastResponse |-> EmptyResponse, lastError |-> NoError,
         result |-> <<>>, thrown |-> NoError])

\* The request text of the attempt about to run.
GetObjectRequest(st) ==
    IF st.attempt = 0
    THEN [template |-> "generateObjectTemplate",
          lastResponse |-> EmptyResponse, error |-> NoError]
    ELSE [template |-> "generateRetryTemplate",
          lastResponse |-> st.lastResponse, error |-> st.lastError]

\* A Runtime.getObject that rethrows the error of the model at once.
RuntimeGetObjectIterationRethrows(max, schema, st, b) ==
    LET modelError == [kind |-> "ModelError", attempt |-> st.attempt]
        last == (st.attempt = max - 1)
        p == ParseResponse(schema, b.response, st.attempt)
    IN  IF b.kind = "throw"
        THEN [st EXCEPT !.pc = "raised", !.lastError = modelError, !.thrown = modelError]
        ELSE IF p.ok
        THEN [st EXCEPT !.pc = "returned", !.lastResponse = b.response,
                        !.result = <<p.value>>]
        ELSE IF last
        THEN [st EXCEPT !.pc = "raised", !.lastResponse = b.response,
                        !.lastError = p.error, !.thrown = p.error]
        ELSE [st EXCEPT !.lastResponse = b.response, !.lastError = p.error,
                        !.attempt = st.attempt + 1]

\* One iteration of Runtime.getObject's loop, given what the model did.
RuntimeGetObjectIteration(max, schema, st, b) ==
    LET modelError == [kind |-> "ModelError", attempt |-> st.attempt]
        last == (st.attempt = max - 1)
        \* first try block
        s1 == IF b.kind = "response"
              THEN [st EXCEPT !.lastResponse = b.response]
              ELSE [st EXCEPT !.lastError = modelError]
        p == ParseResponse(schema, s1.lastResponse, st.attempt)
    IN  IF b.kind = "throw" /\ last
        THEN [s1 EXCEPT !.pc = "raised", !.thrown = modelError]
        \* second try block: runs on the response held in lastResponse
        ELSE IF p.ok
        THEN [s1 EXCEPT !.pc = "returned", !.result = <<p.value>>]
        ELSE IF last
        THEN [s1 EXCEPT !.pc = "raised", !.lastError = p.error, !.thrown = p.error]
        ELSE [s1 EXCEPT !.lastError = p.error, !.attempt = st.attempt + 1]

\* One iteration of the free function getObject's loop.
FunctionGetObjectIteration(max, schema, st, b) ==
    LET modelError == [kind |-> "ModelError", attempt |-> st.attempt]
        last == (st.attempt = max - 1)
        p == ParseResponse(schema, b.response, st.attempt)
    IN  IF b.kind = "throw"
        THEN IF last
             THEN [st EXCEPT !.pc = "raised", !.lastError = modelError,
                             !.thrown = modelError]
             ELSE [st EXCEPT !.lastError = modelError, !.attempt = st.attempt + 1]
        ELSE IF p.ok
        THEN [st EXCEPT !.pc = "returned", !.lastResponse = b.response,
                        !.result = <<p.value>>]
        ELSE IF last
        THEN [st EXCEPT !.pc = "raised", !.lastResponse = b.response,
                        !.lastError = p.error, !.thrown = p.error]
        ELSE [st EXCEPT !.lastResponse = b.response, !.lastError = p.error,
                        !.attempt = st.attempt + 1]

\* A getObject that, on a retry, does not return the value it validated but
\* asks the model again.
GetObjectAttemptRetriesAfterSuccess(impl, config, schema, st, b) ==
    LET max == MaxRetries(impl, config)
        s == IF impl = "part_001"
             THEN RuntimeGetObjectIteration(max, schema, st, b)
             ELSE FunctionGetObjectIteration(max, schema, st, b)
    IN  IF s.pc = "returned" /\ st.attempt > 0 /\ st.attempt < max - 1
        THEN [s EXCEPT !.pc = "loop", !.result = <<>>, !.attempt = st.attempt + 1]
        ELSE IF s.pc = "loop" THEN GetObjectLoopTest(impl, max, s) ELSE s

\* One attempt: the model invocation resolves or throws, the loop body runs to
\* its end, and the loop test is evaluated again.
GetObjectAttempt(impl, config, schema, st, b) ==
    LET max == MaxRetries(impl, config)
        s == IF impl = "part_001"
             THEN RuntimeGetObjectIteration(max, schema, st, b)
             ELSE FunctionGetObjectIteration(max, schema, st, b)
    IN  IF s.pc = "loop" THEN GetObjectLoopTest(impl, max, s) ELSE s

(***************************************************************************)
(* Specification of one getObject call                                     *)
(***************************************************************************)
\* No registry is in use.
MgrIdle ==
    /\ plugins = <<>>
    /\ models = <<>>
    /\ capabilityRegistry = <<>>
    /\ capabilityAliases = <<>>
    /\ lastCall = <<>>
    /\ startup = <<>>

RtIdle ==
    /\ MgrIdle
    /\ world = <<>>
    /\ isRunning = FALSE
    /\ eventQueue = <<>>
    /\ currentContext = <<>>
    /\ contextChain = <<>>
    /\ events = <<>>
    /\ loops = <<>>
    /\ memory = <<>>
    /\ hist = <<>>

GoInit ==
    /\ goImpl \in {"part_001", "part_000"}
    /\ goConfig \in RetryConfigs
    /\ goSchema \in Schemas
    /\ go = GetObjectEnter(goImpl, goConfig)
    /\ goLog = <<>>
    /\ RtIdle

\* The awaited executeCapability call of the current attempt completes.
ModelResponds ==
    /\ go.pc = "loop"
    /\ \E r \in Responses :
        LET b == [kind |-> "response", response |-> r]
        IN  /\ goLog' = Append(goLog, [request |-> GetObjectRequest(go), behaviour |-> b])
            /\ go' = GetObjectAttempt(goImpl, goConfig, goSchema, go, b)
    /\ UNCHANGED <<goImpl, goConfig, goSchema, rtVars, mgrVars>>

ModelThrows ==
    /\ go.pc = "loop"
    /\ LET b == [kind |-> "throw", response |-> EmptyResponse]
       IN  /\ goLog' = Append(goLog, [request |-> GetObjectRequest(go), behaviour |-> b])
           /\ go' = GetObjectAttempt(goImpl, goConfig, goSchema, go, b)
    /\ UNCHANGED <<goImpl, goConfig, goSchema, rtVars, mgrVars>>

GoNext == ModelResponds \/ ModelThrows

SpecGetObject == GoInit /\ [][GoNext]_vars

(***************************************************************************)
(* Runtime: data                                                           *)
(***************************************************************************)
MaxEvents == 2
MaxLoops == 2
MaxPlanLen == 2

\* Plug-ins registered with the PluginRegistry. A plan may also name an id
\* that is not registered: the plan is model output.
RegisteredPlugins == {"plugin-time", "plugin-text"}

TimeStep == [pluginId |-> "plugin-time", action |-> "get_current_time"]
TextStep == [pluginId |-> "plugin-text", action |-> "generate_text"]
GhostStep == [pluginId |-> "plugin-ghost", action |-> "haunt"]

\* All sequences over S of length at most n.
RECURSIVE SeqsUpTo(_, _)
SeqsUpTo(S, n) ==
    IF n = 0 THEN {<<>>}
    ELSE LET shorter == SeqsUpTo(S, n - 1)
         IN  shorter \cup {Append(q, x) : q \in {t \in shorter : Len(t) = n - 1}, x \in S}

\* PipelineModification values: modifiedSteps is null or an array of steps.
Modifications(steps, n) ==
    [shouldModify : BOOLEAN, isNull : {TRUE}, modifiedSteps : {<<>>}]
        \cup [shouldModify : BOOLEAN, isNull : {FALSE}, modifiedSteps : SeqsUpTo(steps, n)]

\* A fallback that asks for the rest of the plan to be dropped.
TruncatingModification == [shouldModify |-> TRUE, isNull |-> FALSE, modifiedSteps |-> <<>>]

\* Returned by evaluatePipelineModification when getObject raises.
NoModification == [shouldModify |-> FALSE, isNull |-> TRUE, modifiedSteps |-> <<>>]

\* The initial context item of an event: a user_input item, or (a trigger
\* pushing something else) an item of another type.
UserInputItem(e) ==
    [pluginId |-> "plugin-platform", action |-> "receive_message",
     type |-> "user_input", content |-> "message", user |-> "user",
     id |-> e]

SystemItem(e) ==
    [pluginId |-> "plugin-platform", action |-> "tick",
     type |-> "system", content |-> "tick", id |-> e]

\* getUserInput(context): the chain's first item when it is a user_input item.
getUserInput(chain) ==
    IF Len(chain) > 0 /\ chain[1].type = "user_input" THEN <<chain[1]>> ELSE <<>>

\* { ...a, ...b }
Spread(a, b) ==
    [f \in (DOMAIN a) \cup (DOMAIN b) |-> IF f \in DOMAIN b THEN b[f] ELSE a[f]]

\* The ErrorContextItem built for a step that failed.
ErrorItem(step, action, why) ==
    [pluginId |-> step.pluginId, action |-> action, type |-> "error",
     content |-> why, error |-> why, failedStep |-> step]

\* array.findIndex: the first index satisfying the test, 0 when there is none.
FindIndex(chain, item) ==
    LET hits == {i \in 1..Len(chain) :
                    chain[i].pluginId = item.pluginId /\ chain[i].action = item.action}
    IN  IF hits = {} THEN 0 ELSE CHOOSE i \in hits : \A j \in hits : i <= j

\* A pushToContextChain that replaces the matching entry by the new item.
PushToContextChainReplaces(chain, item) ==
    LET existingIndex == FindIndex(chain, item)
    IN  IF existingIndex # 0
        THEN [chain EXCEPT ![existingIndex] = item]
        ELSE Append(chain, item)

\* Runtime.pushToContextChain(item) on the chain of the current context.
PushToContextChain(chain, item) ==
    LET existingIndex == FindIndex(chain, item)
    IN  IF existingIndex # 0
        THEN [chain EXCEPT ![existingIndex] = Spread(chain[existingIndex], item)]
        ELSE Append(chain, item)

NoCall ==
    [pc |-> "none", attempt |-> 0, lastResponse |-> EmptyResponse,
     lastError |-> NoError, result |-> <<>>, thrown |-> NoError]

\* A loop that has not been started, or is between two events. Besides the
\* locals of the code (ctx, pipeline, idx, go) it carries observations: what
\* evaluatePipeline's getObject did (plan), every completed plugin.execute
\* call (executed), the last evaluatePipelineModification call (mod) and the
\* error that ended the loop (outcome).
NoLoop ==
    [pc |-> "none", ctx |-> <<>>, pipeline |-> <<>>, idx |-> 0, go |-> NoCall,
     plan |-> "none", executed |-> <<>>, mod |-> <<>>, outcome |-> "none"]

LoopIds == 1..MaxLoops
EventIds == 1..MaxEvents

\* The runtime's state as one record, for the code between two awaits.
RT ==
    [isRunning |-> isRunning, eventQueue |-> eventQueue,
     currentContext |-> currentContext, contextChain |-> contextChain,
     loops |-> loops, memory |-> memory, hist |-> hist]

Commit(S) ==
    /\ isRunning' = S.isRunning
    /\ eventQueue' = S.eventQueue
    /\ currentContext' = S.currentContext
    /\ contextChain' = S.contextChain
    /\ loops' = S.loops
    /\ memory' = S.memory
    /\ hist' = S.hist

(***************************************************************************)
(* Runtime: the code between two awaits of an evaluation loop              *)
(***************************************************************************)
\* PluginRegistry.getPlugin(id): the plug-in, or a thrown not-found error.
GetPlugin(registered, id) ==
    IF id \in registered THEN [throws |-> FALSE, plugin |-> id]
    ELSE [throws |-> TRUE, plugin |-> ""]

\* A falsy entry of the plan array.
NullStep == [pluginId |-> "", action |-> ""]

\* JSON.stringify(result.data)
Stringify(data) ==
    IF "currentTime" \in DOMAIN data THEN "{currentTime,helpfulInstruction}" ELSE "{}"

\* result.data of the time plug-in's get_current_time executor.
TimeData == [currentTime |-> "now", helpfulInstruction |-> "system timezone"]

\* The item the text plug-in's generate_text executor pushes on the chain
\* itself before it resolves with { success: true }.
TextContextItem ==
    [pluginId |-> "plugin-text", type |-> "generated_text",
     action |-> "generate_text", content |-> "generated", text |-> "generated"]

\* The context item pushed for a step that succeeded with data:
\* { id, pluginId, type, action, content, timestamp, ...result.data }
StepResultItem(step, data) ==
    Spread([pluginId |-> step.pluginId, type |-> step.action,
            action |-> step.action, content |-> Stringify(data)], data)

\* A catch block that puts the event back at the head of the queue.
FailOutsideTryRequeues(S, l, error) ==
    [S EXCEPT !.isRunning = FALSE,
              !.eventQueue = S.loops[l].ctx \o @,
              !.loops[l].pc = "failed",
              !.loops[l].go = NoCall,
              !.loops[l].outcome = error]

\* A start() whose catch block leaves the running flag as it is.
FailOutsideTryKeepsRunning(S, l, error) ==
    [S EXCEPT !.loops[l].pc = "failed",
              !.loops[l].go = NoCall,
              !.loops[l].outcome = error]

\* An exception leaves runEvaluationLoop before its try block is entered:
\* start() catches it, clears isRunning and rethrows.
FailOutsideTry(S, l, error) ==
    [S EXCEPT !.isRunning = FALSE,
              !.loops[l].pc = "failed",
              !.loops[l].go = NoCall,
              !.loops[l].outcome = error]

\* An exception leaves the try block of runEvaluationLoop: its finally clears
\* the current context, then as above.
FailInsideTry(S, l, error) ==
    FailOutsideTry([S EXCEPT !.currentContext = <<>>], l, error)

RECURSIVE LoopTop(_, _)
RECURSIVE StepLoop(_, _)

\* A runEvaluationLoop that goes on to the next event without storing.
AfterPipelineSkipsStore(S, l) ==
    LoopTop([S EXCEPT !.currentContext = <<>>], l)

\* runEvaluationLoop after executePipeline returned: the assistant result is
\* stored (awaited); part_000 stores it only for an event with user input.
AfterPipeline(S, l) ==
    LET e == S.loops[l].ctx[1]
    IN  IF world.source = "part_000" /\ getUserInput(S.contextChain[e]) = <<>>
        THEN LoopTop([S EXCEPT !.currentContext = <<>>], l)
        ELSE [S EXCEPT !.loops[l].pc = "persisting"]

\* executePipeline's while loop, from its test to the next await.
StepLoop(S, l) ==
    LET L == S.loops[l]
        e == L.ctx[1]
    IN  IF L.idx < Len(L.pipeline)
        THEN LET currentStep == L.pipeline[L.idx + 1]
             IN  IF currentStep = NullStep
                 THEN StepLoop(
                        [S EXCEPT !.contextChain[e] = Append(@,
                                     [pluginId |-> "runtime", type |-> "error",
                                      action |-> "invalid_step",
                                      content |-> "Invalid step encountered in pipeline",
                                      error |-> "Invalid step encountered in pipeline"]),
                                  !.loops[l].idx = @ + 1], l)
                 ELSE IF GetPlugin(world.plugins, currentStep.pluginId).throws
                 \* the error leaves executePipeline through its finally
                 THEN FailInsideTry([S EXCEPT !.currentContext = <<>>], l,
                                    "Plugin ID not found")
                 ELSE [S EXCEPT !.loops[l].pc = "executing"]
        ELSE \* finally { this.currentContext = undefined }
             AfterPipeline([S EXCEPT !.currentContext = <<>>], l)

\* executePipeline(pipeline, context) up to its first await.
ExecutePipeline(S, l, pipeline) ==
    StepLoop([S EXCEPT !.currentContext = S.loops[l].ctx,
                       !.loops[l].pipeline = pipeline,
                       !.loops[l].idx = 0,
                       !.loops[l].go = NoCall], l)

\* An evaluatePipeline that lets the error of getObject through.
AfterPlanAttemptRethrows(S, l) ==
    LET g == S.loops[l].go
    IN  IF g.pc = "loop"
        THEN [S EXCEPT !.loops[l].pc = "planning"]
        ELSE IF g.pc = "returned" /\ g.result # <<>>
        THEN ExecutePipeline([S EXCEPT !.loops[l].plan = "returned"], l, g.result[1])
        ELSE FailInsideTry([S EXCEPT !.loops[l].plan = "raised"], l,
                           "Failed to get valid response")

\* evaluatePipeline once its getObject call has made progress: still waiting
\* for the model, or a pipeline (the empty one when getObject raised).
AfterPlanAttempt(S, l) ==
    LET g == S.loops[l].go
    IN  IF g.pc = "loop"
        THEN [S EXCEPT !.loops[l].pc = "planning"]
        ELSE IF g.pc = "returned" /\ g.result # <<>>
        THEN ExecutePipeline([S EXCEPT !.loops[l].plan = "returned"], l, g.result[1])
        \* catch: return []
        ELSE ExecutePipeline([S EXCEPT !.loops[l].plan = "raised"], l, <<>>)

\* A splice that keeps the entries after the current step.
ApplyModificationKeepsOldPlan(S, l, modification) ==
    LET L == S.loops[l]
        spliced == IF modification.shouldModify /\ ~modification.isNull
                   THEN L.pipeline \o modification.modifiedSteps
                   ELSE L.pipeline
    IN  StepLoop([S EXCEPT !.loops[l].pipeline = spliced,
                           !.loops[l].idx = @ + 1,
                           !.loops[l].go = NoCall,
                           !.loops[l].mod = <<[raised |-> (L.go.pc = "raised"),
                                               modification |-> modification,
                                               before |-> L.pipeline,
                                               idx |-> L.idx]>>], l)

\* An executePipeline that moves on by two entries after a decision.
ApplyModificationSkipsAStep(S, l, modification) ==
    LET L == S.loops[l]
        spliced == IF modification.shouldModify /\ ~modification.isNull
                   THEN SubSeq(L.pipeline, 1, L.idx + 1) \o modification.modifiedSteps
                   ELSE L.pipeline
    IN  StepLoop([S EXCEPT !.loops[l].pipeline = spliced,
                           !.loops[l].idx = @ + 2,
                           !.loops[l].go = NoCall,
                           !.loops[l].mod = <<[raised |-> (L.go.pc = "raised"),
                                               modification |-> modification,
                                               before |-> L.pipeline,
                                               idx |-> L.idx]>>], l)

\* The splice of executePipeline, then currentStepIndex++.
ApplyModification(S, l, modification) ==
    LET L == S.loops[l]
        spliced == IF modification.shouldModify /\ ~modification.isNull
                   THEN SubSeq(L.pipeline, 1, L.idx + 1) \o modification.modifiedSteps
                   ELSE L.pipeline
    IN  StepLoop([S EXCEPT !.loops[l].pipeline = spliced,
                           !.loops[l].idx = @ + 1,
                           !.loops[l].go = NoCall,
                           !.loops[l].mod = <<[raised |-> (L.go.pc = "raised"),
                                               modification |-> modification,
                                               before |-> L.pipeline,
                                               idx |-> L.idx]>>], l)

\* evaluatePipelineModification once its getObject call has made progress.
AfterModificationAttempt(S, l) ==
    LET g == S.loops[l].go
    IN  IF g.pc = "loop"
        THEN [S EXCEPT !.loops[l].pc = "modifying"]
        ELSE ApplyModification(S, l,
                IF g.pc = "returned" /\ g.result # <<>> THEN g.result[1]
                ELSE NoModification)

\* A queue that hands out its newest entry first.
ShiftTakesNewest(queue) ==
    [context |-> queue[Len(queue)], rest |-> SubSeq(queue, 1, Len(queue) - 1)]

\* this.eventQueue.shift() on a queue that is not empty.
Shift(queue) ==
    [context |-> Head(queue), rest |-> Tail(queue)]

\* The call this.getObject(schema, template, { temperature: 0.2 }).
GetObjectCall == GetObjectEnter(world.source, <<>>)

\* The top of runEvaluationLoop's while loop, up to the next await.
LoopTop(S, l) ==
    IF ~S.isRunning
    THEN [S EXCEPT !.loops[l] = [NoLoop EXCEPT !.pc = "exited"]]
    ELSE IF S.eventQueue = <<>>
    THEN [S EXCEPT !.loops[l] = [NoLoop EXCEPT !.pc = "sleeping"]]
    ELSE LET shifted == Shift(S.eventQueue)
             e == shifted.context
             userInput == getUserInput(S.contextChain[e])
             S1 == [S EXCEPT !.eventQueue = shifted.rest,
                             !.loops[l] = [NoLoop EXCEPT !.ctx = <<e>>]]
         IN  IF world.source = "part_001" /\ userInput = <<>>
             \* userInput.pluginId of undefined: a TypeError before the try
             THEN FailOutsideTry(S1, l, "TypeError")
             ELSE LET S2 == [S1 EXCEPT !.currentContext = <<e>>,
                                       !.hist.planned = Append(@, e)]
                  IN  IF userInput # <<>>
                      THEN [S2 EXCEPT !.loops[l].pc = "history"]
                      ELSE AfterPlanAttempt([S2 EXCEPT !.loops[l].go = GetObjectCall], l)

(***************************************************************************)
(* Runtime: actions                                                        *)
(***************************************************************************)
MaxChainLen == 3

RtUnchanged == UNCHANGED <<goVars, mgrVars, world, events>>

Loop(l) == loops[l]

\* The loop slot a new runEvaluationLoop invocation takes.
FreeLoops == {l \in 1..world.loops : loops[l].pc \in {"none", "exited", "failed"}}

\* Runtime.start()
Start ==
    /\ \/ /\ isRunning
          /\ UNCHANGED <<isRunning, eventQueue, currentContext, contextChain,
                         loops, memory, hist>>
       \/ /\ ~isRunning
          /\ FreeLoops # {}
          /\ LET l == CHOOSE x \in FreeLoops : \A y \in FreeLoops : x <= y
             IN  Commit(LoopTop([RT EXCEPT !.isRunning = TRUE, !.loops[l] = NoLoop], l))
    /\ RtUnchanged

\* A stop() that also empties the queue.
StopClearsTheQueue ==
    /\ \/ /\ ~isRunning
          /\ UNCHANGED <<isRunning, eventQueue>>
       \/ /\ isRunning
          /\ isRunning' = FALSE
          /\ eventQueue' = <<>>
    /\ UNCHANGED <<currentContext, contextChain, loops, memory, hist>>
    /\ RtUnchanged

\* Runtime.stop()
Stop ==
    /\ \/ /\ ~isRunning          \* throws "Runtime is not running"
          /\ UNCHANGED isRunning
       \/ /\ isRunning
          /\ isRunning' = FALSE
    /\ UNCHANGED <<eventQueue, currentContext, contextChain, loops, memory, hist>>
    /\ RtUnchanged

\* A loop that returns when it finds the queue empty.
WakeExits(l) ==
    /\ Loop(l).pc = "sleeping"
    /\ Commit([RT EXCEPT !.loops[l] = [NoLoop EXCEPT !.pc = "exited"]])
    /\ RtUnchanged

\* The 100 ms sleep of an idle loop ends.
Wake(l) ==
    /\ Loop(l).pc = "sleeping"
    /\ Commit(LoopTop(RT, l))
    /\ RtUnchanged

\* evaluatePipeline: getRecentConversationHistory resolves or rejects.
HistoryFetched(l) ==
    /\ Loop(l).pc = "history"
    /\ \E resolved \in world.memoryOutcomes :
        IF resolved
        THEN Commit(AfterPlanAttempt([RT EXCEPT !.loops[l].go = GetObjectCall], l))
        ELSE Commit(FailInsideTry(RT, l, "history rejected"))
    /\ RtUnchanged

\* What the model may do when asked: throw, answer unparsable text (when the
\* run lets it fail in that way), or answer JSON holding one of `values`.
ModelBehaviours(values) ==
    { b \in { [kind |-> "throw", response |-> EmptyResponse],
              [kind |-> "response", response |-> [syntax |-> "garbage", value |-> 0]] } :
        b.kind \in world.failures }
        \cup { [kind |-> "response", response |-> [syntax |-> "json", value |-> v]] :
                v \in values }

\* evaluatePipeline: one attempt of its getObject call completes.
PlanAttempt(l) ==
    /\ Loop(l).pc = "planning"
    /\ \E b \in ModelBehaviours(world.plans) :
        Commit(AfterPlanAttempt(
            [RT EXCEPT !.loops[l].go =
                GetObjectAttempt(world.source, <<>>, world.plans, Loop(l).go, b)], l))
    /\ RtUnchanged

\* An executePipeline without the catch block around plugin.execute.
ExecutorThrewLeavesLoop(S, l) ==
    LET L == S.loops[l]
        currentStep == L.pipeline[L.idx + 1]
    IN  FailInsideTry(
            [S EXCEPT !.loops[l].executed =
                        Append(@, [step |-> currentStep, result |-> "throw"])],
            l, "thrown")

\* An executePipeline that asks for a modification after a step that threw.
ExecutorThrewAsksForModification(S, l) ==
    LET L == S.loops[l]
        e == L.ctx[1]
        currentStep == L.pipeline[L.idx + 1]
    IN  AfterModificationAttempt([S EXCEPT
            !.contextChain[e] = Append(@, ErrorItem(currentStep, currentStep.action, "thrown")),
            !.loops[l].executed = Append(@, [step |-> currentStep, result |-> "throw"]),
            !.loops[l].go = GetObjectCall], l)

\* executePipeline: plugin.execute threw. The catch block records the error,
\* then currentStepIndex++ and the while loop goes on.
ExecutorThrew(S, l) ==
    LET L == S.loops[l]
        e == L.ctx[1]
        currentStep == L.pipeline[L.idx + 1]
    IN  StepLoop([S EXCEPT
            !.contextChain[e] = Append(@, ErrorItem(currentStep, currentStep.action, "thrown")),
            !.loops[l].executed = Append(@, [step |-> currentStep, result |-> "throw"]),
            !.loops[l].idx = @ + 1], l)

\* executePipeline: plugin.execute resolved with result o (the executor may
\* have pushed on the chain itself). The result is recorded in the chain and
\* evaluatePipelineModification is called.
ExecutorResolved(S, l, o) ==
    LET L == S.loops[l]
        e == L.ctx[1]
        currentStep == L.pipeline[L.idx + 1]
        chain == S.contextChain[e] \o o.pushes
    IN  AfterModificationAttempt([S EXCEPT
            !.contextChain[e] =
                IF o.kind = "failure"
                THEN Append(chain, ErrorItem(currentStep, currentStep.action, "failed"))
                ELSE IF o.kind = "data"
                THEN Append(chain, StepResultItem(currentStep, o.data))
                ELSE chain,
            !.loops[l].executed = Append(@, [step |-> currentStep, result |-> o.kind]),
            !.loops[l].go = GetObjectCall], l)

\* executePipeline: the awaited plugin.execute(currentStep.action, context)
\* completes.
StepExecuted(l) ==
    /\ Loop(l).pc = "executing"
    /\ \E o \in world.outcomes[Loop(l).pipeline[Loop(l).idx + 1].pluginId] :
        IF o.kind = "throw"
        THEN Commit(ExecutorThrew(RT, l))
        ELSE Commit(ExecutorResolved(RT, l, o))
    /\ RtUnchanged

\* The modifications the model is let to answer: the spliced plan stays
\* within MaxPlanLen.
OfferedModifications(l) ==
    {m \in world.modifications :
        (m.shouldModify /\ ~m.isNull) =>
            Loop(l).idx + 1 + Len(m.modifiedSteps) <= MaxPlanLen}

\* evaluatePipelineModification: one attempt of its getObject call completes.
ModificationAttempt(l) ==
    /\ Loop(l).pc = "modifying"
    /\ \E b \in ModelBehaviours(OfferedModifications(l)) :
        Commit(AfterModificationAttempt(
            [RT EXCEPT !.loops[l].go =
                GetObjectAttempt(world.source, <<>>, world.modifications, Loop(l).go, b)], l))
    /\ RtUnchanged

\* lastContext.message
ResponseOf(chain) ==
    IF "message" \in DOMAIN Last(chain) THEN Last(chain).message ELSE "undefined"

\* runEvaluationLoop: storeAssistantInteraction resolves or rejects.
Persisted(l) ==
    /\ Loop(l).pc = "persisting"
    /\ LET e == Loop(l).ctx[1]
       IN  \E resolved \in world.memoryOutcomes :
            IF resolved
            THEN Commit(LoopTop(
                    [RT EXCEPT !.memory.assistant = Append(@,
                                   [event |-> e,
                                    response |-> ResponseOf(contextChain[e]),
                                    chain |-> contextChain[e],
                                    plan |-> Loop(l).plan]),
                               !.currentContext = <<>>], l))
            ELSE Commit(FailInsideTry(RT, l, "store rejected"))
    /\ RtUnchanged

(***************************************************************************)
(* Runtime: producers                                                      *)
(***************************************************************************)
\* Events come into being in the order of their ids.
MayBegin(e) ==
    /\ e \in 1..world.events
    /\ events[e].stage = "none"
    /\ e > 1 => events[e - 1].stage # "none"

ProducerUnchanged ==
    UNCHANGED <<goVars, mgrVars, world, isRunning, currentContext, loops>>

Enqueued(S, e) ==
    [S EXCEPT !.eventQueue = Append(@, e), !.hist.appended = Append(@, e)]

\* Runtime.createEvent(initialContext): the conversation is resolved and
\* queueInterface.push starts; it awaits the history of the user.
CreateEvent(e) ==
    /\ MayBegin(e)
    /\ "createEvent" \in world.producers
    /\ events' = [events EXCEPT ![e] = [stage |-> "history", by |-> "createEvent"]]
    /\ contextChain' = [contextChain EXCEPT ![e] = <<UserInputItem(e)>>]
    /\ UNCHANGED <<eventQueue, memory, hist>>
    /\ ProducerUnchanged

\* queueInterface.push: getRecentConversationHistory resolves (the history is
\* attached to the first chain item) or rejects (push rejects).
PushHistoryFetched(e) ==
    /\ events[e].stage = "history"
    /\ \E resolved \in world.memoryOutcomes :
        IF resolved
        THEN /\ events' = [events EXCEPT ![e].stage = "storing"]
             /\ contextChain' = [contextChain EXCEPT
                    ![e][1] = Spread(@, [messageHistory |-> "history"])]
        ELSE /\ events' = [events EXCEPT ![e].stage = "failed"]
             /\ UNCHANGED contextChain
    /\ UNCHANGED <<eventQueue, memory, hist>>
    /\ ProducerUnchanged

\* A push that appends the event although storeUserInteraction rejected.
PushStoredEnqueuesAnyway(e) ==
    /\ events[e].stage = "storing"
    /\ \E resolved \in world.memoryOutcomes :
        /\ events' = [events EXCEPT ![e].stage = IF resolved THEN "queued" ELSE "failed"]
        /\ LET S == Enqueued([RT EXCEPT !.memory.user =
                                  IF resolved THEN Append(@, e) ELSE @], e)
           IN  /\ eventQueue' = S.eventQueue
               /\ memory' = S.memory
               /\ hist' = S.hist
    /\ UNCHANGED contextChain
    /\ ProducerUnchanged

\* queueInterface.push: storeUserInteraction resolves (the event is appended to
\* the queue) or rejects (push rejects).
PushStored(e) ==
    /\ events[e].stage = "storing"
    /\ \E resolved \in world.memoryOutcomes :
        IF resolved
        THEN /\ events' = [events EXCEPT ![e].stage = "queued"]
             /\ LET S == Enqueued([RT EXCEPT !.memory.user = Append(@, e)], e)
                IN  /\ eventQueue' = S.eventQueue
                    /\ memory' = S.memory
                    /\ hist' = S.hist
        ELSE /\ events' = [events EXCEPT ![e].stage = "failed"]
             /\ UNCHANGED <<eventQueue, memory, hist>>
    /\ UNCHANGED contextChain
    /\ ProducerUnchanged

\* A trigger calls queueInterface.push with a context that holds no user
\* input: nothing is awaited, the event is appended at once.
TriggerPush(e) ==
    /\ MayBegin(e)
    /\ "trigger" \in world.producers
    /\ events' = [events EXCEPT ![e] = [stage |-> "queued", by |-> "trigger"]]
    /\ contextChain' = [contextChain EXCEPT
            ![e] = <<Spread(SystemItem(e), [messageHistory |-> "none"])>>]
    /\ LET S == Enqueued(RT, e)
       IN  /\ eventQueue' = S.eventQueue
           /\ hist' = S.hist
    /\ UNCHANGED memory
    /\ ProducerUnchanged

\* Runtime.pushContext(context): appended to the queue as it is.
PushContext(e) ==
    /\ MayBegin(e)
    /\ "pushContext" \in world.producers
    /\ events' = [events EXCEPT ![e] = [stage |-> "queued", by |-> "pushContext"]]
    /\ contextChain' = [contextChain EXCEPT ![e] = <<UserInputItem(e)>>]
    /\ LET S == Enqueued(RT, e)
       IN  /\ eventQueue' = S.eventQueue
           /\ hist' = S.hist
    /\ UNCHANGED memory
    /\ ProducerUnchanged

(***************************************************************************)
(* Runtime: specifications                                                 *)
(***************************************************************************)
MaxModificationLen == 1

Steps == {TimeStep, TextStep, GhostStep}

\* What plugin.execute may do, by plug-in. The time plug-in resolves with
\* { success: true, data }; the text plug-in pushes its item and resolves with
\* { success: true }, or resolves with { success: false }; a call may throw.
ExecutorResults ==
    [p \in RegisteredPlugins |->
        IF p = "plugin-time"
        THEN { [kind |-> "data", data |-> TimeData, pushes |-> <<>>],
               [kind |-> "throw", data |-> <<>>, pushes |-> <<>>] }
        ELSE { [kind |-> "nodata", data |-> <<>>, pushes |-> <<TextContextItem>>],
               [kind |-> "failure", data |-> <<>>, pushes |-> <<>>] }]

\* The executors of a run in which no step fails.
ReliableExecutors ==
    [p \in RegisteredPlugins |->
        {r \in ExecutorResults[p] : r.kind \in {"data", "nodata"}}]

GoIdle ==
    /\ goImpl = "part_001"
    /\ goConfig = <<>>
    /\ goSchema = {}
    /\ go = NoCall
    /\ goLog = <<>>

RtInit ==
    /\ isRunning = FALSE
    /\ eventQueue = <<>>
    /\ currentContext = <<>>
    /\ contextChain = [e \in EventIds |-> <<>>]
    /\ events = [e \in EventIds |-> [stage |-> "none", by |-> "none"]]
    /\ loops = [l \in LoopIds |-> NoLoop]
    /\ memory = [user |-> <<>>, assistant |-> <<>>]
    /\ hist = [appended |-> <<>>, planned |-> <<>>]
    /\ GoIdle
    /\ MgrIdle

\* Several producers, start/stop/start: the event queue and the loops, in a
\* run where the model, the memory and the executors do not fail.
Init ==
    /\ world = [source |-> "part_001",
                plugins |-> RegisteredPlugins,
                plans |-> {<<TimeStep>>},
                modifications |-> {NoModification},
                outcomes |-> ReliableExecutors,
                failures |-> {},
                memoryOutcomes |-> {TRUE},
                producers |-> {"createEvent", "trigger", "pushContext"},
                events |-> MaxEvents,
                loops |-> MaxLoops]
    /\ RtInit

\* One event at a time, one loop at a time: plans, step results and
\* modifications in full.
PipelineInit ==
    /\ world = [source |-> "part_001",
                plugins |-> RegisteredPlugins,
                plans |-> SeqsUpTo(Steps, MaxPlanLen),
                modifications |-> Modifications(Steps, MaxModificationLen),
                outcomes |-> ExecutorResults,
                failures |-> {"throw", "response"},
                memoryOutcomes |-> BOOLEAN,
                producers |-> {"createEvent", "trigger", "pushContext"},
                events |-> 1,
                loops |-> 1]
    /\ RtInit

Next ==
    \/ Start
    \/ Stop
    \/ \E l \in 1..world.loops : Wake(l)
    \/ \E l \in 1..world.loops : HistoryFetched(l)
    \/ \E l \in 1..world.loops : PlanAttempt(l)
    \/ \E l \in 1..world.loops : StepExecuted(l)
    \/ \E l \in 1..world.loops : ModificationAttempt(l)
    \/ \E l \in 1..world.loops : Persisted(l)
    \/ \E e \in 1..world.events : CreateEvent(e)
    \/ \E e \in 1..world.events : PushHistoryFetched(e)
    \/ \E e \in 1..world.events : PushStored(e)
    \/ \E e \in 1..world.events : TriggerPush(e)
    \/ \E e \in 1..world.events : PushContext(e)

Spec == Init /\ [][Next]_vars

\* Several events, one loop at a time and a memory whose calls may reject, in
\* a run where the model and the executors do not fail.
FailureInit ==
    /\ world = [source |-> "part_001",
                plugins |-> RegisteredPlugins,
                plans |-> {<<TimeStep>>},
                modifications |-> {NoModification},
                outcomes |-> ReliableExecutors,
                failures |-> {},
                memoryOutcomes |-> BOOLEAN,
                producers |-> {"createEvent", "trigger", "pushContext"},
                events |-> MaxEvents,
                loops |-> 1]
    /\ RtInit

SpecFailure == FailureInit /\ [][Next]_vars

\* Several events and one loop at a time, in a run where the model, the
\* memory and the executors do not fail.
LiveInit ==
    /\ world = [source |-> "part_001",
                plugins |-> RegisteredPlugins,
                plans |-> {<<TimeStep>>},
                modifications |-> {NoModification},
                outcomes |-> ReliableExecutors,
                failures |-> {},
                memoryOutcomes |-> {TRUE},
                producers |-> {"createEvent", "trigger", "pushContext"},
                events |-> MaxEvents,
                loops |-> 1]
    /\ RtInit

\* The timer of a sleeping loop fires and every awaited call of a loop comes
\* back; nothing makes start(), stop() or a producer happen.
LoopFairness ==
    \A l \in LoopIds :
        /\ WF_vars(Wake(l))
        /\ WF_vars(HistoryFetched(l))
        /\ WF_vars(PlanAttempt(l))
        /\ WF_vars(StepExecuted(l))
        /\ WF_vars(ModificationAttempt(l))
        /\ WF_vars(Persisted(l))

SpecLive == LiveInit /\ [][Next]_vars /\ LoopFairness

SpecPipeline == PipelineInit /\ [][Next]_vars

(***************************************************************************)
(* Specification of executePipeline's while loop with plans of any length: *)
(* the loop reads currentPipeline from currentStepIndex on and never the   *)
(* entries before it, so the state kept here is that rest of the plan (its *)
(* head is the current step) and the getObject call of the decision        *)
(***************************************************************************)
\* currentStepIndex++ and the test of the while loop: the next step is
\* looked up, or the plan is exhausted.
Advance(L) ==
    LET rest == Tail(L.pipeline)
    IN  IF rest = <<>>
        THEN [L EXCEPT !.pc = "exhausted", !.pipeline = <<>>, !.go = NoCall]
        ELSE IF GetPlugin(world.plugins, Head(rest).pluginId).throws
        THEN [L EXCEPT !.pc = "failed", !.pipeline = rest, !.go = NoCall]
        ELSE [L EXCEPT !.pc = "executing", !.pipeline = rest, !.go = NoCall]

\* The splice, on the rest of the plan: the current step stays, what
\* follows it is replaced.
Replan(L, modification) ==
    IF modification.shouldModify /\ ~modification.isNull
    THEN [L EXCEPT !.pipeline = <<Head(L.pipeline)>> \o modification.modifiedSteps]
    ELSE L

\* evaluatePipelineModification once its getObject call has made progress,
\* then the splice and currentStepIndex++.
AfterDecisionAttempt(L) ==
    IF L.go.pc = "loop" THEN [L EXCEPT !.pc = "modifying"]
    ELSE Advance(Replan(L, IF L.go.pc = "returned" /\ L.go.result # <<>>
                           THEN L.go.result[1] ELSE NoModification))

\* executePipeline(pipeline, context) is entered with a generated plan.
ReplanInit ==
    /\ world = [source |-> "part_001",
                plugins |-> RegisteredPlugins,
                plans |-> SeqsUpTo(Steps, MaxPlanLen),
                modifications |-> Modifications(Steps, MaxPlanLen),
                outcomes |-> ExecutorResults,
                failures |-> {"throw", "response"}]
    /\ loops \in {<<Advance([pc |-> "entered", pipeline |-> <<NullStep>> \o plan,
                             result |-> <<>>, go |-> NoCall])>> :
                     plan \in SeqsUpTo(Steps, MaxPlanLen)}
    /\ isRunning = TRUE
    /\ eventQueue = <<>>
    /\ currentContext = <<1>>
    /\ contextChain = <<>>
    /\ events = <<>>
    /\ memory = <<>>
    /\ hist = <<>>
    /\ GoIdle
    /\ MgrIdle

ReplanUnchanged ==
    UNCHANGED <<goVars, mgrVars, world, isRunning, eventQueue, currentContext,
                contextChain, events, memory, hist>>

\* The awaited plugin.execute of the current step completes: a throw is caught
\* and the loop moves on, a result leads to evaluatePipelineModification.
ReplanStepExecuted ==
    /\ loops[1].pc = "executing"
    /\ \E o \in world.outcomes[Head(loops[1].pipeline).pluginId] :
        loops' = <<IF o.kind = "throw" THEN Advance(loops[1])
                   ELSE AfterDecisionAttempt([loops[1] EXCEPT !.result = <<o>>,
                                                              !.go = GetObjectCall])>>
    /\ ReplanUnchanged

\* One attempt of the decision's getObject call completes.
ReplanDecisionAttempt ==
    /\ loops[1].pc = "modifying"
    /\ \E b \in ModelBehaviours(world.modifications) :
        loops' = <<AfterDecisionAttempt(
                     [loops[1] EXCEPT !.go =
                         GetObjectAttempt(world.source, <<>>, world.modifications,
                                          loops[1].go, b)])>>
    /\ ReplanUnchanged

ReplanNext == ReplanStepExecuted \/ ReplanDecisionAttempt

\* Every awaited call of the loop comes back.
SpecReplan ==
    ReplanInit /\ [][ReplanNext]_vars
        /\ WF_vars(ReplanStepExecuted) /\ WF_vars(ReplanDecisionAttempt)

(***************************************************************************)
(* Specification of pushToContextChain: a context chain, built by direct   *)
(* pushes and by calls of pushToContextChain                               *)
(***************************************************************************)
\* Items handed to pushToContextChain or pushed on the chain directly: two of
\* them share the pair (plugin-time, get_current_time) and differ in their
\* fields, the others differ from it in the plug-in, the action or both.
ChainItems ==
    { StepResultItem(TimeStep, TimeData),
      [pluginId |-> "plugin-time", action |-> "get_current_time",
       type |-> "note", content |-> "pushed"],
      [pluginId |-> "plugin-text", action |-> "get_current_time",
       type |-> "note", content |-> "pushed", text |-> "note"],
      TextContextItem }

ChainInit ==
    /\ world = [pluginItems |-> ChainItems]
    /\ isRunning = FALSE
    /\ eventQueue = <<>>
    /\ currentContext \in {<<>>, <<1>>}
    /\ contextChain = [e \in {1} |-> <<UserInputItem(e)>>]
    /\ events = <<>>
    /\ loops = <<>>
    /\ memory = <<>>
    /\ hist = [call |-> <<>>]
    /\ GoIdle
    /\ MgrIdle

ChainUnchanged ==
    UNCHANGED <<goVars, mgrVars, world, isRunning, eventQueue, currentContext, events,
                loops, memory>>

\* context.contextChain.push(item), as executePipeline and plug-ins do.
DirectPush ==
    /\ Len(contextChain[1]) < MaxChainLen
    /\ \E item \in world.pluginItems :
        contextChain' = [contextChain EXCEPT ![1] = Append(@, item)]
    /\ hist' = [call |-> <<>>]
    /\ ChainUnchanged

\* runtime.pushToContextChain(item): nothing happens without a current
\* context. hist.call holds the call and the chain it found.
PushToContextChainCalled ==
    /\ \E item \in world.pluginItems :
        /\ hist' = [call |-> <<[item |-> item, slot |-> currentContext,
                                before |-> contextChain[1]]>>]
        /\ IF currentContext = <<>>
           THEN UNCHANGED contextChain
           ELSE LET e == currentContext[1]
                    chain == PushToContextChain(contextChain[e], item)
                IN  /\ Len(chain) <= MaxChainLen
                    /\ contextChain' = [contextChain EXCEPT ![e] = chain]
    /\ ChainUnchanged

ChainNext == DirectPush \/ PushToContextChainCalled

SpecChain == ChainInit /\ [][ChainNext]_vars

(***************************************************************************)
(* Claims about getObject (checked under SpecGetObject)                    *)
(***************************************************************************)
\* The number of attempts the configuration asks for.
ConfiguredRetries ==
    IF goConfig = <<>> THEN DEFAULT_MAX_RETRIES
    ELSE IF goConfig[1] < 0 THEN 0 ELSE goConfig[1]

Invocations == Len(goLog)

IsValidResponse(b) ==
    b.kind = "response" /\ ParseResponse(goSchema, b.response, 0).ok

\* C1: getObject either returns a value that was parsed from a model response
\* and passed schema validation, or raises after exactly maxRetries model
\* invocations; it never returns a non-conforming or unvalidated value.
C1_ReturnsValidatedOrRaisesAfterMaxRetries ==
    /\ go.pc = "returned" =>
        /\ go.result # <<>>
        /\ go.result[1] \in goSchema
        /\ Invocations >= 1
        /\ IsValidResponse(Last(goLog).behaviour)
        /\ Last(goLog).behaviour.response.value = go.result[1]
    /\ go.pc = "raised" => Invocations = ConfiguredRetries

\* With a retry budget of at least one attempt (unset, or a positive
\* maxRetries) the guarantee of C1 does hold.
C1_HoldsWithPositiveBudget ==
    (goConfig = <<>> \/ goConfig[1] >= 1) => C1_ReturnsValidatedOrRaisesAfterMaxRetries

\* C2: when the first valid response is the one of attempt k-1 (every earlier
\* attempt failed), getObject returns exactly that value after exactly k model
\* invocations, and no invocation ever follows a valid response.
C2_ReturnsFirstValidResponseImmediately ==
    /\ \A j \in 1..(Invocations - 1) : ~IsValidResponse(goLog[j].behaviour)
    /\ (Invocations >= 1 /\ IsValidResponse(Last(goLog).behaviour)) =>
        /\ go.pc = "returned"
        /\ go.result = <<Last(goLog).behaviour.response.value>>
        /\ go.attempt = Invocations - 1
        /\ ~ENABLED GoNext

\* An unparsable first response followed by a valid second one: attempts = 2.
C2_Witness ==
    /\ Invocations = 2
    /\ goLog[1].behaviour.kind = "response"
    /\ goLog[1].behaviour.response.syntax = "garbage"
    /\ IsValidResponse(goLog[2].behaviour)
    /\ go.pc = "returned"
    /\ go.attempt + 1 = 2

(***************************************************************************)
(* Claims about the event queue and the loops (checked under Spec)         *)
(***************************************************************************)
\* The position of x in s.
Pos(s, x) == CHOOSE i \in 1..Len(s) : s[i] = x

Elements(s) == {s[i] : i \in 1..Len(s)}

\* C3: the evaluation loop begins processing events in the order in which
\* they were appended to the queue: plannings start in append order, and no
\* event still waiting in the queue was appended before one whose planning
\* has started.
C3_PlanningStartsInAppendOrder ==
    /\ \A i, j \in 1..Len(hist.planned) :
          i < j => Pos(hist.appended, hist.planned[i]) < Pos(hist.appended, hist.planned[j])
    /\ \A k \in 1..Len(hist.appended) :
          hist.appended[k] \in Elements(hist.planned) =>
              \A m \in 1..(k - 1) : hist.appended[m] \notin Elements(eventQueue)

\* Event 2 was appended before event 1 (whose push was still awaiting the
\* memory) and both have been taken up, in that order.
C3_Witness ==
    /\ hist.appended = <<2, 1>>
    /\ hist.planned = <<2, 1>>

\* A loop that holds an event between its dequeue and the end of its
\* persistence.
Processing(l) ==
    loops[l].pc \in {"history", "planning", "executing", "modifying", "persisting"}

\* C4: at most one event is being processed at any instant: no two loops are
\* at the same time inside the planning, step execution or persistence of an
\* event, also after start is called again following stop.
C4_AtMostOneEventInProcess ==
    \A l1, l2 \in DOMAIN loops :
        (Processing(l1) /\ Processing(l2)) => l1 = l2

(***************************************************************************)
(* Claims about one event's pipeline (checked under SpecPipeline)          *)
(***************************************************************************)
IsRegistered(step) == step.pluginId \in world.plugins

\* C5: a planned step that names a plug-in id that is not registered does
\* not abort the event: the loop does not end with the registry's not-found
\* error, and every such step the loop has passed left a plugin_not_found
\* error item in the chain.
C5_MissingPluginDoesNotAbortTheEvent ==
    \A l \in DOMAIN loops :
        LET L == loops[l]
        IN  /\ L.outcome # "Plugin ID not found"
            /\ \A k \in 1..L.idx :
                  ~IsRegistered(L.pipeline[k]) =>
                      \E i \in 1..Len(contextChain[L.ctx[1]]) :
                          LET item == contextChain[L.ctx[1]][i]
                          IN  /\ item.type = "error"
                              /\ item.action = "plugin_not_found"
                              /\ item.pluginId = L.pipeline[k].pluginId

IsErrorItem(item) == item.type = "error"

IsFailedExecution(x) == x.result \in {"throw", "failure"}

\* C6: every plugin.execute call that threw or resolved with success=false
\* left exactly one error item in the chain, in call order, carrying the
\* step's pluginId, its action and the failed step; each completed call
\* advanced the step index by one; and the executor's exception never ends
\* the loop.
C6_FailedStepIsRecordedOnceAndSkipped ==
    \A l \in DOMAIN loops :
        LET L == loops[l]
        IN  L.ctx # <<>> =>
            LET errors == SelectSeq(contextChain[L.ctx[1]], IsErrorItem)
                failures == SelectSeq(L.executed, IsFailedExecution)
            IN  /\ Len(errors) = Len(failures)
                /\ \A i \in 1..Len(errors) :
                      /\ errors[i].pluginId = failures[i].step.pluginId
                      /\ errors[i].action = failures[i].step.action
                      /\ "failedStep" \in DOMAIN errors[i]
                      /\ errors[i].failedStep = failures[i].step
                /\ L.pc = "executing" => L.idx = Len(L.executed)
                /\ L.pc = "modifying" => L.idx = Len(L.executed) - 1
                /\ L.pc = "persisting" => L.idx = Len(L.executed)
                /\ L.outcome # "thrown"

\* The first step threw, the second one reported a failure, the plan has
\* been run to its end and the runtime is still running.
C6_Witness ==
    /\ isRunning
    /\ \E l \in DOMAIN loops :
        /\ loops[l].pc = "persisting"
        /\ loops[l].executed = <<[step |-> TimeStep, result |-> "throw"],
                                 [step |-> TextStep, result |-> "failure"]>>

\* C7: when the getObject call of evaluatePipeline raised, the pipeline is
\* empty, no step is executed, nothing is added to the chain, and the loop
\* goes on to the persistence call: it ends only if that call itself rejects.
C7_FailedGenerationGivesEmptyPipeline ==
    /\ \A l \in DOMAIN loops :
          LET L == loops[l]
          IN  L.plan = "raised" =>
                /\ L.pipeline = <<>>
                /\ L.executed = <<>>
                /\ Len(contextChain[L.ctx[1]]) = 1
                /\ \/ L.pc = "persisting"
                   \/ L.pc = "failed" /\ L.outcome = "store rejected"
    /\ \A i \in 1..Len(memory.assistant) :
          memory.assistant[i].plan = "raised" => Len(memory.assistant[i].chain) = 1

\* An event whose pipeline generation failed has been persisted and the
\* loop is idle again, the runtime still running.
C7_Witness ==
    /\ isRunning
    /\ \E i \in 1..Len(memory.assistant) : memory.assistant[i].plan = "raised"
    /\ \E l \in DOMAIN loops : loops[l].pc = "sleeping"

\* C8: when the getObject call of evaluatePipelineModification raised, the
\* decision is shouldModify=false with modifiedSteps=null, the plan is the
\* one it was before, and the steps executed are its entries in their order.
C8_FailedModificationKeepsThePlan ==
    \A l \in DOMAIN loops :
        LET L == loops[l]
        IN  (L.mod # <<>> /\ L.mod[1].raised) =>
                /\ ~L.mod[1].modification.shouldModify
                /\ L.mod[1].modification.isNull
                /\ L.pipeline = L.mod[1].before
                /\ Len(L.executed) <= Len(L.pipeline)
                /\ \A k \in 1..Len(L.executed) :
                      L.executed[k].step = L.mod[1].before[k]

\* The modification decision after the first of two steps could not be
\* obtained, and the second step has been executed since.
C8_Witness ==
    \E l \in DOMAIN loops :
        /\ loops[l].mod # <<>>
        /\ loops[l].mod[1].raised
        /\ loops[l].mod[1].idx = 0
        /\ Len(loops[l].mod[1].before) = 2
        /\ Len(loops[l].executed) = 2

\* C9: after a modification with shouldModify=true and non-null
\* modifiedSteps was applied at index i, the plan is the old plan's entries
\* 0..i followed by modifiedSteps (entries up to i unchanged, later ones
\* discarded), and the steps executed so far are the plan's first entries,
\* each executed once.
C9_SpliceReplacesTheRestOfThePlan ==
    \A l \in DOMAIN loops :
        LET L == loops[l]
        IN  (L.mod # <<>> /\ L.mod[1].modification.shouldModify
                /\ ~L.mod[1].modification.isNull) =>
            LET i == L.mod[1].idx
                old == L.mod[1].before
                modifiedSteps == L.mod[1].modification.modifiedSteps
            IN  /\ Len(L.pipeline) = i + 1 + Len(modifiedSteps)
                /\ \A k \in 1..(i + 1) : L.pipeline[k] = old[k]
                /\ \A k \in 1..Len(modifiedSteps) :
                      L.pipeline[i + 1 + k] = modifiedSteps[k]
                /\ Len(L.executed) <= Len(L.pipeline)
                /\ \A k \in 1..Len(L.executed) : L.executed[k].step = L.pipeline[k]

\* A plan of two steps was modified after its first step: the second entry
\* was replaced by another step, and that step has been executed.
C9_Witness ==
    \E l \in DOMAIN loops :
        /\ loops[l].mod # <<>>
        /\ loops[l].mod[1].modification.shouldModify
        /\ ~loops[l].mod[1].modification.isNull
        /\ loops[l].mod[1].idx = 0
        /\ Len(loops[l].mod[1].before) = 2
        /\ Len(loops[l].mod[1].modification.modifiedSteps) = 1
        /\ loops[l].mod[1].modification.modifiedSteps[1] # loops[l].mod[1].before[2]
        /\ Len(loops[l].executed) = 2
        /\ loops[l].executed[2].step = loops[l].mod[1].modification.modifiedSteps[1]

(***************************************************************************)
(* Claims about pushToContextChain (checked under SpecChain)               *)
(***************************************************************************)
SamePair(a, b) == a.pluginId = b.pluginId /\ a.action = b.action

\* C10: a call of pushToContextChain with a current context and an item
\* whose (pluginId, action) pair is that of a chain entry leaves the length
\* of the chain and every other entry unchanged and overwrites the first such
\* entry field by field (a field the item lacks keeps its value); with a pair
\* no entry has, the item is appended at the end.
C10_PushMergesSamePairAppendsNewPair ==
    (hist.call # <<>> /\ hist.call[1].slot # <<>>) =>
        LET before == hist.call[1].before
            item == hist.call[1].item
            after == contextChain[hist.call[1].slot[1]]
            matches == {i \in 1..Len(before) : SamePair(before[i], item)}
        IN  IF matches = {}
            THEN after = Append(before, item)
            ELSE LET first == CHOOSE i \in matches : \A j \in matches : i <= j
                 IN  /\ Len(after) = Len(before)
                     /\ \A j \in 1..Len(before) : j # first => after[j] = before[j]
                     /\ DOMAIN after[first] = DOMAIN before[first] \cup DOMAIN item
                     /\ \A f \in DOMAIN item : after[first][f] = item[f]
                     /\ \A f \in DOMAIN before[first] \ DOMAIN item :
                           after[first][f] = before[first][f]

\* A call merged into an entry that is not the last one: a field of the
\* entry was overwritten with another value and a field the item lacks was
\* kept.
C10_Witness ==
    /\ hist.call # <<>>
    /\ hist.call[1].slot # <<>>
    /\ \E i \in 1..(Len(hist.call[1].before) - 1) :
        /\ SamePair(hist.call[1].before[i], hist.call[1].item)
        /\ \A j \in 1..(i - 1) : ~SamePair(hist.call[1].before[j], hist.call[1].item)
        /\ hist.call[1].before[i].content # hist.call[1].item.content
        /\ DOMAIN hist.call[1].before[i] \ DOMAIN hist.call[1].item # {}
        /\ contextChain[1][i].content = hist.call[1].item.content

(***************************************************************************)
(* Claims about the recording of step results (checked under SpecPipeline) *)
(***************************************************************************)
\* C11: a successful step result whose (pluginId, action) pair is already in
\* the event's chain is merged into that entry and not appended: for every
\* step executed with data the chain holds exactly one entry that is not an
\* error item and has the step's pair, also when the plan holds the same step
\* twice.
C11_StepResultsAreMergedByPair ==
    \A l \in DOMAIN loops :
        LET L == loops[l]
        IN  \A k \in 1..Len(L.executed) :
                L.executed[k].result = "data" =>
                    LET chain == contextChain[L.ctx[1]]
                    IN  Cardinality({i \in 1..Len(chain) :
                                        /\ chain[i].type # "error"
                                        /\ SamePair(chain[i], L.executed[k].step)}) = 1

(***************************************************************************)
(* PluginRegistry (packages/core/src/runtime/managers/plugin.ts)           *)
(***************************************************************************)
MaxInstances == 2
MaxBatch == 2

\* The ids plug-ins come with; "" is the empty id.
PluginIds == {""} \cup RegisteredPlugins

\* The ids looked up: those and the id of a plug-in nobody supplies.
LookupIds == PluginIds \cup {GhostStep.pluginId}

\* Plug-in objects: two objects with the same id are different objects.
PluginObjects == [id : PluginIds, instance : 1..MaxInstances]

\* A Map is the sequence of its entries in insertion order.
MapKeys(map) == [i \in 1..Len(map) |-> map[i].key]
MapValues(map) == [i \in 1..Len(map) |-> map[i].value]
MapHas(map, key) == \E i \in 1..Len(map) : map[i].key = key
MapGet(map, key) ==
    IF MapHas(map, key)
    THEN [found |-> TRUE, value |-> map[CHOOSE i \in 1..Len(map) : map[i].key = key].value]
    ELSE [found |-> FALSE, value |-> <<>>]
\* map.set(key, value): an existing key keeps its position.
MapSet(map, key, value) ==
    IF MapHas(map, key)
    THEN [i \in 1..Len(map) |->
            IF map[i].key = key THEN [key |-> key, value |-> value] ELSE map[i]]
    ELSE Append(map, [key |-> key, value |-> value])

NoRegistryError == [message |-> "none"]

\* this.plugins.set without the two checks.
registerPluginOverwrites(map, plugin) ==
    [plugins |-> MapSet(map, plugin.id, plugin), error |-> NoRegistryError]

\* registerPlugin(plugin): the map afterwards and the error thrown.
registerPlugin(map, plugin) ==
    IF plugin.id = ""
    THEN [plugins |-> map, error |-> [message |-> "Plugin ID cannot be empty"]]
    ELSE IF MapHas(map, plugin.id)
    THEN [plugins |-> map,
          error |-> [message |-> "Plugin ID collision", id |-> plugin.id,
                     registered |-> MapKeys(map)]]
    ELSE [plugins |-> MapSet(map, plugin.id, plugin), error |-> NoRegistryError]

\* registerPlugins(...batch): one registerPlugin per element, up to the first
\* that throws.  `before' is the map the last registerPlugin call started
\* with, `log' the plug-ins registered so far.
RECURSIVE registerPlugins(_, _, _)
registerPlugins(map, batch, log) ==
    LET r == registerPlugin(map, Head(batch))
    IN  IF r.error # NoRegistryError
        THEN [plugins |-> r.plugins, error |-> r.error, plugin |-> Head(batch),
              before |-> map, log |-> log]
        ELSE IF Len(batch) = 1
        THEN [plugins |-> r.plugins, error |-> r.error, plugin |-> Head(batch),
              before |-> map, log |-> Append(log, Head(batch))]
        ELSE registerPlugins(r.plugins, Tail(batch), Append(log, Head(batch)))

\* A getPlugin that answers undefined for an unknown id.
getPluginReturnsUndefined(map, id) ==
    [returned |-> TRUE, value |-> MapGet(map, id).value, error |-> NoRegistryError]

\* getPlugin(id): the plug-in returned or the error thrown.
getPlugin(map, id) ==
    LET plugin == MapGet(map, id)
    IN  IF ~plugin.found
        THEN [returned |-> FALSE, value |-> <<>>,
              error |-> [message |-> "Plugin ID not found", id |-> id,
                         available |-> MapKeys(map)]]
        ELSE [returned |-> TRUE, value |-> plugin.value, error |-> NoRegistryError]

\* getAllPlugins()
getAllPlugins(map) == MapValues(map)

\* The variables of the event loop before a Runtime exists.
NoRuntime ==
    /\ world = <<>>
    /\ isRunning = FALSE
    /\ eventQueue = <<>>
    /\ currentContext = <<>>
    /\ contextChain = <<>>
    /\ events = <<>>
    /\ loops = <<>>
    /\ memory = <<>>
    /\ hist = <<>>

\* new PluginRegistry()
RegistryInit ==
    /\ plugins = <<>>
    /\ lastCall = [op |-> "new", log |-> <<>>]
    /\ models = <<>>
    /\ capabilityRegistry = <<>>
    /\ capabilityAliases = <<>>
    /\ startup = <<>>
    /\ GoIdle
    /\ NoRuntime

RegistryUnchanged ==
    UNCHANGED <<goVars, rtVars, models, capabilityRegistry, capabilityAliases, startup>>

RegisterPluginsCalled ==
    /\ \E batch \in SeqsUpTo(PluginObjects, MaxBatch) \ {<<>>} :
        LET r == registerPlugins(plugins, batch, lastCall.log)
        IN  /\ plugins' = r.plugins
            /\ lastCall' = [op |-> "registerPlugin", plugin |-> r.plugin,
                            before |-> r.before, error |-> r.error, log |-> r.log]
    /\ RegistryUnchanged

GetPluginCalled ==
    /\ \E id \in LookupIds :
        LET r == getPlugin(plugins, id)
        IN  lastCall' = [op |-> "getPlugin", id |-> id, returned |-> r.returned,
                         value |-> r.value, error |-> r.error, log |-> lastCall.log]
    /\ UNCHANGED plugins
    /\ RegistryUnchanged

GetAllPluginsCalled ==
    /\ lastCall' = [op |-> "getAllPlugins", value |-> getAllPlugins(plugins),
                    log |-> lastCall.log]
    /\ UNCHANGED plugins
    /\ RegistryUnchanged

RegistryNext ==
    \/ RegisterPluginsCalled
    \/ GetPluginCalled
    \/ GetAllPluginsCalled

SpecRegistry == RegistryInit /\ [][RegistryNext]_vars

(***************************************************************************)
(* Claims about the plug-in registry (checked under SpecRegistry)          *)
(***************************************************************************)
\* C12: registering a plug-in with an empty id, or with an id that is already
\* registered, raises and leaves the registered plug-ins and their order as
\* they were; the collision error names the new id and every registered id;
\* the registered ids are pairwise distinct and none is empty.
C12_RejectedRegistrationChangesNothing ==
    /\ \A i, j \in 1..Len(plugins) :
          /\ plugins[i].key # ""
          /\ plugins[i].key = plugins[i].value.id
          /\ (i # j => plugins[i].key # plugins[j].key)
    /\ lastCall.op = "registerPlugin" =>
          LET wasRegistered == \E i \in 1..Len(lastCall.before) :
                                  lastCall.before[i].key = lastCall.plugin.id
          IN  IF lastCall.plugin.id = ""
              THEN /\ lastCall.error.message = "Plugin ID cannot be empty"
                   /\ plugins = lastCall.before
              ELSE IF wasRegistered
              THEN /\ lastCall.error.message = "Plugin ID collision"
                   /\ lastCall.error.id = lastCall.plugin.id
                   /\ lastCall.error.registered =
                          [i \in 1..Len(lastCall.before) |-> lastCall.before[i].key]
                   /\ plugins = lastCall.before
              ELSE /\ lastCall.error = NoRegistryError
                   /\ plugins = Append(lastCall.before,
                                       [key |-> lastCall.plugin.id,
                                        value |-> lastCall.plugin])

\* A second plug-in object with a registered id was rejected while two
\* plug-ins were registered.
C12_Witness ==
    /\ lastCall.op = "registerPlugin"
    /\ lastCall.error.message = "Plugin ID collision"
    /\ Len(plugins) = 2
    /\ \E i \in 1..2 : /\ plugins[i].key = lastCall.plugin.id
                       /\ plugins[i].value # lastCall.plugin

\* C13: getPlugin(id) returns the plug-in registered under the id, or raises a
\* not-found error that lists the registered ids; it never returns an absent
\* value.  getAllPlugins returns every registered plug-in exactly once, in
\* the order of registration.
C13_LookupReturnsThePluginOrRaises ==
    /\ lastCall.op = "getPlugin" =>
          IF \E i \in 1..Len(lastCall.log) : lastCall.log[i].id = lastCall.id
          THEN /\ lastCall.returned
               /\ lastCall.error = NoRegistryError
               /\ lastCall.value \in Elements(lastCall.log)
               /\ lastCall.value.id = lastCall.id
          ELSE /\ ~lastCall.returned
               /\ lastCall.error.message = "Plugin ID not found"
               /\ lastCall.error.id = lastCall.id
               /\ lastCall.error.available =
                      [i \in 1..Len(lastCall.log) |-> lastCall.log[i].id]
    /\ lastCall.op = "getAllPlugins" => lastCall.value = lastCall.log

\* A lookup of an id that is not registered was made while two plug-ins were.
C13_Witness ==
    /\ lastCall.op = "getPlugin"
    /\ ~lastCall.returned
    /\ Len(lastCall.log) = 2
    /\ lastCall.id # ""

(***************************************************************************)
(* ModelManager (packages/core/src/runtime/managers/model/index.ts, and    *)
(* its earlier form in part_002)                                           *)
(***************************************************************************)
MaxGroupLen == 2
MaxGroups == 2

ProviderIds == {"openai", "ollama"}
CapabilityIds == {"text-generation", "text-creation", "image-generation"}

\* The capabilities a provider object comes with (addCapability calls of its
\* constructor).
ProviderCapabilities ==
    {{}, {"text-generation"}, {"text-creation"}, {"image-generation"},
     {"text-generation", "image-generation"}}

ModelProviders == [id : ProviderIds, capabilities : ProviderCapabilities]

\* modelProvider.getCapability(capabilityId) is defined.
ProviderHasCapability(provider, capabilityId) == capabilityId \in provider.capabilities

\* A group of interchangeable capability ids: MaxGroupLen distinct ids.
AliasGroups ==
    {g \in SeqsUpTo(CapabilityIds, MaxGroupLen) :
        /\ Len(g) = MaxGroupLen
        /\ \A i, j \in 1..Len(g) : i # j => g[i] # g[j]}

\* The manager's three fields as one value.
Manager ==
    [models |-> models, capabilityRegistry |-> capabilityRegistry,
     capabilityAliases |-> capabilityAliases]

\* new CapabilityRegistry(): for every capability id the providers registered
\* for it and its default provider ("" is undefined).
NewCapabilityRegistry ==
    [capabilities |-> [c \in CapabilityIds |-> {}],
     defaults |-> [c \in CapabilityIds |-> ""]]

\* capabilityRegistry.registerCapability(modelId, capabilityId)
RegisterCapability(registry, modelId, capabilityId) ==
    [registry EXCEPT !.capabilities[capabilityId] = @ \cup {modelId}]

\* capabilityRegistry.hasCapability(capabilityId)
RegistryHasCapability(registry, capabilityId) ==
    /\ capabilityId \in DOMAIN registry.capabilities
    /\ registry.capabilities[capabilityId] # {}

\* capabilityRegistry.getDefaultModelForCapability(capabilityId)
GetDefaultModelForCapability(registry, capabilityId) ==
    IF capabilityId \in DOMAIN registry.defaults
    THEN registry.defaults[capabilityId] ELSE ""

\* capabilityRegistry.setDefaultModelForCapability(capabilityId, modelId)
RegistrySetDefault(registry, capabilityId, modelId) ==
    [registry EXCEPT !.defaults[capabilityId] = modelId]

\* new Map<string, string>() of capabilityAliases: the value under every key,
\* "" where get answers undefined.  The order of its entries is never read.
NoAliases == [c \in CapabilityIds |-> ""]

\* this.capabilityAliases.get(capabilityId) || capabilityId
Resolve(aliases, capabilityId) ==
    IF capabilityId \in DOMAIN aliases /\ aliases[capabilityId] # ""
    THEN aliases[capabilityId] ELSE capabilityId

\* hasCapability(capabilityId)
hasCapability(M, capabilityId) ==
    RegistryHasCapability(M.capabilityRegistry, Resolve(M.capabilityAliases, capabilityId))

\* The registry after the loop of registerModelProvider over the provider's
\* capabilities: each is recorded, and gets the provider as default when it
\* has none.
RegisterCapabilities(registry, provider) ==
    [capabilities |->
        [c \in CapabilityIds |->
            IF c \in provider.capabilities
            THEN RegisterCapability(registry, provider.id, c).capabilities[c]
            ELSE registry.capabilities[c]],
     defaults |->
        [c \in CapabilityIds |->
            IF c \in provider.capabilities
                   /\ GetDefaultModelForCapability(registry, c) = ""
            THEN RegistrySetDefault(registry, c, provider.id).defaults[c]
            ELSE registry.defaults[c]]]

\* A registerModelProvider that makes the newcomer the default.
registerModelProviderTakesOver(M, provider) ==
    [M EXCEPT !.models = MapSet(@, provider.id, provider),
              !.capabilityRegistry =
                  [capabilities |-> RegisterCapabilities(@, provider).capabilities,
                   defaults |-> [c \in CapabilityIds |->
                                    IF c \in provider.capabilities
                                    THEN provider.id ELSE @.defaults[c]]]]

\* registerModelProvider(modelProvider)
registerModelProvider(M, provider) ==
    [M EXCEPT !.models = MapSet(@, provider.id, provider),
              !.capabilityRegistry = RegisterCapabilities(@, provider)]

\* aliasGroup.find((id) => this.hasCapability(id)) ?? aliasGroup[0]
CanonicalId(M, aliasGroup) ==
    IF \E i \in 1..Len(aliasGroup) : hasCapability(M, aliasGroup[i])
    THEN aliasGroup[CHOOSE i \in 1..Len(aliasGroup) :
                        /\ hasCapability(M, aliasGroup[i])
                        /\ \A j \in 1..(i - 1) : ~hasCapability(M, aliasGroup[j])]
    ELSE aliasGroup[1]

\* this.capabilityAliases.set(alias, canonicalId) for every id of the group
\* that is not the canonical id, in the group's order.
RECURSIVE SetAliases(_, _, _)
SetAliases(aliases, ids, canonicalId) ==
    IF ids = <<>> THEN aliases
    ELSE SetAliases(IF Head(ids) # canonicalId
                    THEN [aliases EXCEPT ![Head(ids)] = canonicalId] ELSE aliases,
                    Tail(ids), canonicalId)

\* A group registration that does not look whether the canonical id is
\* registered.
RegisterAliasGroupUnguarded(M, aliasGroup) ==
    [manager |-> [M EXCEPT !.capabilityAliases =
                      SetAliases(@, aliasGroup, CanonicalId(M, aliasGroup))],
     error |-> NoRegistryError]

\* The body of the loop of registerCapabilityAliases for one group: the
\* manager afterwards and the error thrown.
RegisterAliasGroup(M, aliasGroup) ==
    LET canonicalId == CanonicalId(M, aliasGroup)
    IN  IF /\ \E i \in 1..Len(aliasGroup) : aliasGroup[i] # canonicalId
           /\ ~RegistryHasCapability(M.capabilityRegistry, canonicalId)
        THEN [manager |-> M,
              error |-> [message |-> "Capability not found", id |-> canonicalId]]
        ELSE [manager |-> [M EXCEPT !.capabilityAliases =
                               SetAliases(@, aliasGroup, canonicalId)],
              error |-> NoRegistryError]

\* registerCapabilityAliases(capabilityAliases): group after group up to the
\* first that throws.  `group' is the last group worked on and `before' the
\* manager that group started with.
RECURSIVE registerCapabilityAliases(_, _)
registerCapabilityAliases(M, groups) ==
    CHOOSE out \in
        {IF r.error # NoRegistryError \/ Len(groups) = 1
         THEN [manager |-> r.manager, error |-> r.error, group |-> Head(groups),
               before |-> M]
         ELSE registerCapabilityAliases(r.manager, Tail(groups)) :
            r \in {RegisterAliasGroup(M, Head(groups))}} : TRUE

\* registerCapabilityAlias(alias, canonicalId) of part_002
registerCapabilityAlias(M, alias, canonicalId) ==
    IF ~RegistryHasCapability(M.capabilityRegistry, canonicalId)
    THEN [manager |-> M,
          error |-> [message |-> "Capability not found", id |-> canonicalId]]
    ELSE [manager |-> [M EXCEPT !.capabilityAliases[alias] = canonicalId],
          error |-> NoRegistryError]

\* setDefaultModelForCapability(capabilityId, modelId)
setDefaultModelForCapability(M, capabilityId, modelId) ==
    [M EXCEPT !.capabilityRegistry =
        RegistrySetDefault(@, Resolve(M.capabilityAliases, capabilityId), modelId)]

\* What callers pass as input and what a provider's execute function hands
\* back: a string or something else.
Payloads == [type : {"string", "number"}]

\* capability.input.safeParse(input).success and capability.output.parse
\* (result) not throwing, for the string schemas of the text and image
\* capabilities.
Conforms(payload) == payload.type = "string"

\* What capability.execute does when invoked: resolves with a result or
\* rejects.
ExecuteBehaviours == [kind : {"result"}, result : Payloads] \cup {[kind |-> "throw"]}

\* The modelId argument: "" is a call without it.
ModelIdArguments == {""} \cup ProviderIds

NoResult == [type |-> "undefined"]

\* The outcome of a call that threw before or after capability.execute.
Thrown(message, resolved, modelId, invoked) ==
    [returned |-> FALSE, value |-> NoResult, error |-> message,
     resolved |-> resolved, model |-> modelId, invoked |-> invoked]

\* A selection that takes the id as given when the chosen provider supplies
\* it, and resolves the alias only otherwise.
SelectCapabilityPrefersDirect(M, capabilityId, modelId) ==
    LET direct == IF modelId # "" THEN modelId
                  ELSE GetDefaultModelForCapability(M.capabilityRegistry, capabilityId)
        directProvider == MapGet(M.models, direct)
        asGiven == directProvider.found
                      /\ ProviderHasCapability(directProvider.value, capabilityId)
        resolved == IF asGiven THEN capabilityId
                    ELSE Resolve(M.capabilityAliases, capabilityId)
        effectiveModelId ==
            IF modelId # "" THEN modelId
            ELSE GetDefaultModelForCapability(M.capabilityRegistry, resolved)
        modelProvider == MapGet(M.models, effectiveModelId)
    IN  [resolved |-> resolved, model |-> effectiveModelId,
         error |-> IF effectiveModelId = ""
                   THEN "No model specified and no default model set"
                   ELSE IF ~modelProvider.found THEN "Unknown model"
                   ELSE IF ~ProviderHasCapability(modelProvider.value, resolved)
                   THEN "Capability not found on model"
                   ELSE "none"]

\* The first part of executeCapability: the alias resolved, the provider
\* chosen and looked up, the capability looked up on it; `error' is what is
\* thrown on the way, "none" when the capability was found.
SelectCapability(M, capabilityId, modelId) ==
    LET resolved == Resolve(M.capabilityAliases, capabilityId)
        effectiveModelId ==
            IF modelId # "" THEN modelId
            ELSE GetDefaultModelForCapability(M.capabilityRegistry, resolved)
        modelProvider == MapGet(M.models, effectiveModelId)
    IN  [resolved |-> resolved, model |-> effectiveModelId,
         error |-> IF effectiveModelId = ""
                   THEN "No model specified and no default model set"
                   ELSE IF ~modelProvider.found THEN "Unknown model"
                   ELSE IF ~ProviderHasCapability(modelProvider.value, resolved)
                   THEN "Capability not found on model"
                   ELSE "none"]

\* The second part: the input validated, capability.execute awaited, its
\* result parsed with the output schema.
InvokeCapability(selected, input, behaviour) ==
    IF ~Conforms(input)
    THEN Thrown("Invalid input", selected.resolved, selected.model, 0)
    ELSE IF behaviour.kind = "throw"
    THEN Thrown("provider error", selected.resolved, selected.model, 1)
    ELSE IF ~Conforms(behaviour.result)
    THEN Thrown("ZodError", selected.resolved, selected.model, 1)
    ELSE [returned |-> TRUE, value |-> behaviour.result, error |-> "none",
          resolved |-> selected.resolved, model |-> selected.model, invoked |-> 1]

\* An executeCapability that answers a repeated call from the previous answer.
executeCapabilityCached(M, capabilityId, input, modelId, behaviour) ==
    LET selected == SelectCapability(M, capabilityId, modelId)
    IN  IF /\ lastCall.op = "executeCapability"
           /\ lastCall.returned
           /\ lastCall.capabilityId = capabilityId
           /\ lastCall.input = input
           /\ lastCall.modelId = modelId
        THEN [returned |-> TRUE, value |-> lastCall.value, error |-> "none",
              resolved |-> lastCall.resolved, model |-> lastCall.model,
              invoked |-> 0]
        ELSE IF selected.error # "none"
        THEN Thrown(selected.error, selected.resolved, selected.model, 0)
        ELSE InvokeCapability(selected, input, behaviour)

\* An executeCapability that validates the input before it looks for the
\* provider.
executeCapabilityValidatesFirst(M, capabilityId, input, modelId, behaviour) ==
    LET selected == SelectCapability(M, capabilityId, modelId)
    IN  IF ~Conforms(input)
        THEN Thrown("Invalid input", selected.resolved, selected.model, 0)
        ELSE IF selected.error # "none"
        THEN Thrown(selected.error, selected.resolved, selected.model, 0)
        ELSE InvokeCapability(selected, input, behaviour)

\* An executeCapability that returns the provider's result as it is.
executeCapabilityReturnsRawResult(M, capabilityId, input, modelId, behaviour) ==
    LET selected == SelectCapability(M, capabilityId, modelId)
    IN  IF selected.error # "none"
        THEN Thrown(selected.error, selected.resolved, selected.model, 0)
        ELSE IF ~Conforms(input)
        THEN Thrown("Invalid input", selected.resolved, selected.model, 0)
        ELSE IF behaviour.kind = "throw"
        THEN Thrown("provider error", selected.resolved, selected.model, 1)
        ELSE [returned |-> TRUE, value |-> behaviour.result, error |-> "none",
              resolved |-> selected.resolved, model |-> selected.model,
              invoked |-> 1]

\* executeCapability(capabilityId, input, config, modelId) with a provider
\* whose execute function behaves as `behaviour' says: the value returned or
\* the error thrown, the capability and provider chosen, and how often
\* capability.execute was invoked.  Nothing of the manager is read after the
\* await.
executeCapability(M, capabilityId, input, modelId, behaviour) ==
    LET selected == SelectCapability(M, capabilityId, modelId)
    IN  IF selected.error # "none"
        THEN Thrown(selected.error, selected.resolved, selected.model, 0)
        ELSE InvokeCapability(selected, input, behaviour)

\* The calls of executeCapability: capabilityId, input and modelId.
ExecuteCalls ==
    [capabilityId : CapabilityIds, input : Payloads, modelId : ModelIdArguments]

\* The alias groups of the sample configuration.
ConfiguredAliases == <<<<"text-generation", "text-creation">>>>

\* new ModelManager().  world.impl says which form of the class is in use,
\* the other fields what its callers pass.
NewManager ==
    /\ models = <<>>
    /\ capabilityRegistry = NewCapabilityRegistry
    /\ capabilityAliases = NoAliases
    /\ lastCall = [op |-> "new", tick |-> FALSE]
    /\ plugins = <<>>
    /\ startup = <<>>
    /\ GoIdle
    /\ isRunning = FALSE
    /\ eventQueue = <<>>
    /\ currentContext = <<>>
    /\ contextChain = <<>>
    /\ events = <<>>
    /\ loops = <<>>
    /\ memory = <<>>
    /\ hist = <<>>

\* Registrations: two providers of text generation, one of them with image
\* generation too, nobody with text creation; every alias configuration.
ManagerInit ==
    /\ world \in [impl : {"index.ts", "part_002"},
                  providers : {{p \in ModelProviders :
                                  \/ p.id = "openai" /\ Cardinality(p.capabilities) # 1
                                  \/ p.id = "ollama" /\ p.capabilities = {"text-generation"}}},
                  groups : {SeqsUpTo(AliasGroups, MaxGroups) \ {<<>>}},
                  aliases : {CapabilityIds \X CapabilityIds},
                  defaults : {{<<"text-generation", "ollama">>}}]
    /\ NewManager

\* The sample configuration, every kind of executeCapability call.
ExecuteInit ==
    /\ world \in [impl : {"index.ts", "part_002"},
                  providers : {{p \in ModelProviders :
                                  \/ p.id = "openai" /\ Cardinality(p.capabilities) = 2
                                  \/ p.id = "ollama" /\ Cardinality(p.capabilities) = 0}},
                  groups : {{ConfiguredAliases}},
                  aliases : {{<<ConfiguredAliases[1][2], ConfiguredAliases[1][1]>>}},
                  defaults : {{<<"text-creation", "ollama">>}},
                  queries : {{"text-creation"}},
                  calls : {ExecuteCalls},
                  behaviours : {ExecuteBehaviours}]
    /\ NewManager

ManagerUnchanged == UNCHANGED <<goVars, rtVars, plugins, startup>>

SetManager(M) ==
    /\ models' = M.models
    /\ capabilityRegistry' = M.capabilityRegistry
    /\ capabilityAliases' = M.capabilityAliases

\* registerModelProviders(modelProvider) / the constructor's registerModel.
RegisterModelProviderCalled ==
    /\ \E provider \in world.providers :
        /\ SetManager(registerModelProvider(Manager, provider))
        /\ lastCall' = [op |-> "registerModelProvider", provider |-> provider,
                        tick |-> lastCall.tick]
    /\ ManagerUnchanged

RegisterCapabilityAliasesCalled ==
    /\ world.impl = "index.ts"
    /\ \E groups \in world.groups :
        \E r \in {registerCapabilityAliases(Manager, groups)} :
            /\ SetManager(r.manager)
            /\ lastCall' = [op |-> "registerCapabilityAliases", group |-> r.group,
                            changed |-> r.manager # r.before,
                            error |-> r.error, tick |-> lastCall.tick]
    /\ ManagerUnchanged

RegisterCapabilityAliasCalled ==
    /\ world.impl = "part_002"
    /\ \E pair \in world.aliases :
        LET r == registerCapabilityAlias(Manager, pair[1], pair[2])
        IN  /\ SetManager(r.manager)
            /\ lastCall' = [op |-> "registerCapabilityAlias", alias |-> pair[1],
                            canonicalId |-> pair[2],
                            changed |-> r.manager # Manager,
                            error |-> r.error, tick |-> lastCall.tick]
    /\ ManagerUnchanged

SetDefaultModelForCapabilityCalled ==
    /\ \E pair \in world.defaults :
        /\ SetManager(setDefaultModelForCapability(Manager, pair[1], pair[2]))
        /\ lastCall' = [op |-> "setDefaultModelForCapability",
                        capabilityId |-> pair[1], modelId |-> pair[2],
                        tick |-> lastCall.tick]
    /\ ManagerUnchanged

HasCapabilityCalled ==
    /\ \E capabilityId \in world.queries :
        lastCall' = [op |-> "hasCapability", capabilityId |-> capabilityId,
                     value |-> hasCapability(Manager, capabilityId),
                     tick |-> lastCall.tick]
    /\ UNCHANGED <<models, capabilityRegistry, capabilityAliases>>
    /\ ManagerUnchanged

\* `repeat' says that the call before was the same call and returned; `tick'
\* tells a call from the one before.
ExecuteCapabilityCalled ==
    /\ \E call \in world.calls, behaviour \in world.behaviours :
        LET r == executeCapability(Manager, call.capabilityId, call.input,
                                   call.modelId, behaviour)
            repeat == /\ lastCall.op = "executeCapability"
                      /\ lastCall.returned
                      /\ lastCall.capabilityId = call.capabilityId
                      /\ lastCall.input = call.input
                      /\ lastCall.modelId = call.modelId
        IN  lastCall' =
                [op |-> "executeCapability", capabilityId |-> call.capabilityId,
                 input |-> call.input, modelId |-> call.modelId,
                 returned |-> r.returned, value |-> r.value, error |-> r.error,
                 resolved |-> r.resolved, model |-> r.model, invoked |-> r.invoked,
                 invokedWith |-> IF r.invoked > 0 THEN call.input ELSE NoResult,
                 result |-> IF r.invoked > 0 /\ behaviour.kind = "result"
                            THEN behaviour.result ELSE NoResult,
                 repeat |-> repeat,
                 tick |-> ~lastCall.tick]
    /\ UNCHANGED <<models, capabilityRegistry, capabilityAliases>>
    /\ ManagerUnchanged

ManagerNext ==
    \/ RegisterModelProviderCalled
    \/ RegisterCapabilityAliasesCalled
    \/ RegisterCapabilityAliasCalled
    \/ SetDefaultModelForCapabilityCalled

ExecuteNext ==
    \/ RegisterModelProviderCalled
    \/ RegisterCapabilityAliasesCalled
    \/ RegisterCapabilityAliasCalled
    \/ SetDefaultModelForCapabilityCalled
    \/ HasCapabilityCalled
    \/ ExecuteCapabilityCalled

SpecManager == ManagerInit /\ [][ManagerNext]_vars

SpecExecute == ExecuteInit /\ [][ExecuteNext]_vars

\* Both ids of the configured alias group are supplied, each by its own
\* provider; the group is registered in either order, before or after the
\* providers, and either provider is made the default of either id.
ShadowedInit ==
    /\ world \in [impl : {"index.ts", "part_002"},
                  providers : {{p \in ModelProviders :
                                  \/ p.id = "openai" /\ p.capabilities = {"text-generation"}
                                  \/ p.id = "ollama" /\ p.capabilities = {"text-creation"}}},
                  groups : {{ConfiguredAliases,
                             <<<<ConfiguredAliases[1][2], ConfiguredAliases[1][1]>>>>}},
                  aliases : {{<<ConfiguredAliases[1][2], ConfiguredAliases[1][1]>>,
                              <<ConfiguredAliases[1][1], ConfiguredAliases[1][2]>>}},
                  defaults : {{"text-generation", "text-creation"} \X ProviderIds},
                  queries : {{"text-generation", "text-creation"}},
                  calls : {ExecuteCalls},
                  behaviours : {ExecuteBehaviours}]
    /\ NewManager

SpecShadowed == ShadowedInit /\ [][ExecuteNext]_vars

(***************************************************************************)
(* Runtime.init (part_001)                                                 *)
(***************************************************************************)
MaxProviders == 2

REQUIRED_CAPABILITIES == {"text-generation"}

\* plugin.requiredCapabilities: of the text plug-in, of a plug-in that asks
\* for image generation, and of the time plug-in and the others.
RequiredCapabilities(pluginId) ==
    IF pluginId = "plugin-text" THEN {"text-generation"}
    ELSE IF pluginId = "plugin-image" THEN {"image-generation"}
    ELSE {}

\* registerModelProviders(...modelProviders)
RECURSIVE registerModelProviders(_, _)
registerModelProviders(M, providers) ==
    IF providers = <<>> THEN M
    ELSE registerModelProviders(registerModelProvider(M, Head(providers)),
                                Tail(providers))

\* Runtime.init rejects with `error'.
InitFailed(S, error) == [S EXCEPT !.pc = "failed", !.error = error]

AllAre(f, value) == \A x \in DOMAIN f : f[x] = value

\* The callback of ModelManager.init for provider p has run: an error of
\* modelProvider.init is caught.  After the last one checkHealth calls
\* model.checkHealth of every registered provider.
AfterProviderInit(S, p, ok) ==
    LET S1 == [S EXCEPT !.init[p] = IF ok THEN "initialized" ELSE "failed"]
    IN  IF \E q \in DOMAIN S1.init : S1.init[q] = "pending" THEN S1
        ELSE [S1 EXCEPT !.pc = "health",
                        !.health = [q \in DOMAIN S1.init |-> "pending"]]

\* A checkHealth that catches a failed health check as init does.
AfterHealthCheckSwallows(S, M, p, ok) ==
    LET S1 == [S EXCEPT !.health[p] = IF ok THEN "passed" ELSE "failed"]
    IN  IF \E q \in DOMAIN S1.health : S1.health[q] = "pending" THEN S1
        ELSE [S1 EXCEPT !.pc = "memoryInit"]

\* model.checkHealth of provider p has settled.  The first failure rejects
\* Promise.all and with it Runtime.init; when all have passed init goes on to
\* the required capabilities and to memoryManager.init().
AfterHealthCheck(S, M, p, ok) ==
    LET S1 == [S EXCEPT !.health[p] = IF ok THEN "passed" ELSE "failed"]
    IN  IF S.pc # "health" THEN S1
        ELSE IF ~ok THEN InitFailed(S1, "health check failed")
        ELSE IF ~AllAre(S1.health, "passed") THEN S1
        ELSE IF \E c \in REQUIRED_CAPABILITIES : ~hasCapability(M, c)
        THEN InitFailed(S1, "required capability missing")
        ELSE [S1 EXCEPT !.pc = "memoryInit"]

\* A Runtime.init that does not look at what the plug-ins require.
AfterPluginInitSkipsRequired(S, M, registry, id, ok) ==
    LET S1 == [S EXCEPT !.pluginInit[id] = IF ok THEN "initialized" ELSE "failed"]
    IN  IF S.pc # "pluginInit" THEN S1
        ELSE IF ~ok THEN InitFailed(S1, "plugin init failed")
        ELSE IF ~AllAre(S1.pluginInit, "initialized") THEN S1
        ELSE [S1 EXCEPT !.pc = "done"]

\* plugin.init of a registered plug-in has settled; after the last one the
\* capabilities the plug-ins require are looked for and the Runtime is made.
AfterPluginInit(S, M, registry, id, ok) ==
    LET S1 == [S EXCEPT !.pluginInit[id] = IF ok THEN "initialized" ELSE "failed"]
    IN  IF S.pc # "pluginInit" THEN S1
        ELSE IF ~ok THEN InitFailed(S1, "plugin init failed")
        ELSE IF ~AllAre(S1.pluginInit, "initialized") THEN S1
        ELSE IF \E i \in 1..Len(registry) :
                    \E c \in RequiredCapabilities(registry[i].key) : ~hasCapability(M, c)
        THEN InitFailed(S1, "plugin capability missing")
        ELSE [S1 EXCEPT !.pc = "done"]

\* Before Runtime.init is called: what its callers pass is in world.
StartupInit ==
    /\ world \in [providers : {SeqsUpTo({p \in ModelProviders :
                                           \/ p.id = "openai" /\ Cardinality(p.capabilities) = 2
                                           \/ p.id = "ollama" /\ Cardinality(p.capabilities) = 0
                                           \/ p.id = "ollama" /\ p.capabilities = {"text-generation"}},
                                       MaxProviders) \ {<<>>}},
                  groups : {{<<>>, ConfiguredAliases}},
                  plugins : {SeqsUpTo({o \in PluginObjects : o.instance = 1}
                                          \cup {[id |-> "plugin-image", instance |-> 1]},
                                      MaxBatch) \ {<<>>}}]
    /\ startup = [pc |-> "idle", init |-> <<>>, health |-> <<>>, memory |-> [init |-> "none", health |-> "none"],
                  pluginInit |-> <<>>, pluginInitCalls |-> <<>>, error |-> "none"]
    /\ models = <<>>
    /\ capabilityRegistry = NewCapabilityRegistry
    /\ capabilityAliases = NoAliases
    /\ plugins = <<>>
    /\ lastCall = <<>>
    /\ GoIdle
    /\ isRunning = FALSE
    /\ eventQueue = <<>>
    /\ currentContext = <<>>
    /\ contextChain = <<>>
    /\ events = <<>>
    /\ loops = <<>>
    /\ memory = <<>>
    /\ hist = <<>>

StartupUnchanged ==
    UNCHANGED <<goVars, world, eventQueue, currentContext, contextChain, events,
                loops, memory, hist, lastCall>>

\* Runtime.init up to await modelManager.init().
InitCalled ==
    /\ startup.pc = "idle"
    /\ \E providers \in world.providers, groups \in world.groups :
        \E r \in {IF groups = <<>>
                  THEN [manager |-> registerModelProviders(Manager, providers),
                        error |-> NoRegistryError]
                  ELSE registerCapabilityAliases(
                           registerModelProviders(Manager, providers), groups)} :
            /\ SetManager(r.manager)
            /\ startup' =
                  IF r.error # NoRegistryError
                  THEN InitFailed(startup, r.error.message)
                  ELSE [startup EXCEPT
                            !.pc = "modelInit",
                            !.init = [p \in Elements(MapKeys(r.manager.models)) |->
                                         "pending"]]
    /\ UNCHANGED <<plugins, isRunning>>
    /\ StartupUnchanged

ProviderInitSettled ==
    /\ startup.pc = "modelInit"
    /\ \E p \in DOMAIN startup.init, ok \in BOOLEAN :
        /\ startup.init[p] = "pending"
        /\ startup' = AfterProviderInit(startup, p, ok)
    /\ UNCHANGED <<models, capabilityRegistry, capabilityAliases, plugins, isRunning>>
    /\ StartupUnchanged

HealthCheckSettled ==
    /\ \E p \in DOMAIN startup.health, ok \in BOOLEAN :
        /\ startup.health[p] = "pending"
        /\ startup' = AfterHealthCheck(startup, Manager, p, ok)
    /\ UNCHANGED <<models, capabilityRegistry, capabilityAliases, plugins, isRunning>>
    /\ StartupUnchanged

\* A Runtime.init that goes on when memoryManager.init() has rejected.
MemoryInitSettledIgnoresFailure ==
    /\ startup.pc = "memoryInit"
    /\ \E ok \in BOOLEAN :
        startup' = [startup EXCEPT !.pc = "memoryHealth",
                                   !.memory.init = IF ok THEN "initialized" ELSE "failed"]
    /\ UNCHANGED <<models, capabilityRegistry, capabilityAliases, plugins, isRunning>>
    /\ StartupUnchanged

\* await memoryManager.init()
MemoryInitSettled ==
    /\ startup.pc = "memoryInit"
    /\ \E ok \in BOOLEAN :
        startup' = IF ok THEN [startup EXCEPT !.pc = "memoryHealth",
                                              !.memory.init = "initialized"]
                   ELSE InitFailed([startup EXCEPT !.memory.init = "failed"],
                                   "memory init failed")
    /\ UNCHANGED <<models, capabilityRegistry, capabilityAliases, plugins, isRunning>>
    /\ StartupUnchanged

\* await memoryManager.checkHealth(), then the plug-ins are registered and
\* pluginRegistry.init() calls plugin.init of each.
MemoryHealthSettled ==
    /\ startup.pc = "memoryHealth"
    /\ \E ok \in BOOLEAN, batch \in world.plugins :
        \E r \in {registerPlugins(<<>>, batch, <<>>)} :
            IF ~ok
            THEN /\ startup' = InitFailed([startup EXCEPT !.memory.health = "failed"],
                                          "memory health check failed")
                 /\ UNCHANGED plugins
            ELSE /\ plugins' = r.plugins
                 /\ startup' =
                       IF r.error # NoRegistryError
                       THEN InitFailed([startup EXCEPT !.memory.health = "passed"],
                                       r.error.message)
                       ELSE [startup EXCEPT
                                 !.pc = "pluginInit",
                                 !.memory.health = "passed",
                                 !.pluginInit = [id \in Elements(MapKeys(r.plugins)) |->
                                                    "pending"],
                                 !.pluginInitCalls = MapKeys(r.plugins)]
    /\ UNCHANGED <<models, capabilityRegistry, capabilityAliases, isRunning>>
    /\ StartupUnchanged

PluginInitSettled ==
    /\ \E id \in DOMAIN startup.pluginInit, ok \in BOOLEAN :
        /\ startup.pluginInit[id] = "pending"
        /\ startup' = AfterPluginInit(startup, Manager, plugins, id, ok)
    /\ UNCHANGED <<models, capabilityRegistry, capabilityAliases, plugins, isRunning>>
    /\ StartupUnchanged

\* start() of the Runtime that init returned: the triggers are started and
\* the evaluation loop runs.
RuntimeStarted ==
    /\ startup.pc = "done"
    /\ ~isRunning
    /\ isRunning' = TRUE
    /\ UNCHANGED <<models, capabilityRegistry, capabilityAliases, plugins, startup>>
    /\ StartupUnchanged

StartupNext ==
    \/ InitCalled
    \/ ProviderInitSettled
    \/ HealthCheckSettled
    \/ MemoryInitSettled
    \/ MemoryHealthSettled
    \/ PluginInitSettled
    \/ RuntimeStarted

SpecStartup == StartupInit /\ [][StartupNext]_vars

(***************************************************************************)
(* Claims about capability registration (checked under SpecManager)        *)
(***************************************************************************)
\* C14: when registerCapabilityAliases has worked on a group in which some id
\* is supplied by a registered provider, the group's canonical id is the
\* first such id: the group was registered without an error, every other id
\* of the group resolves to that id, and hasCapability is true of every id of
\* the group.
C14_GroupResolvesToFirstSuppliedId ==
    lastCall.op = "registerCapabilityAliases" =>
        LET g == lastCall.group
            supplied == {i \in 1..Len(g) :
                            RegistryHasCapability(capabilityRegistry, g[i])}
        IN  supplied # {} =>
                LET b == g[CHOOSE i \in supplied : \A j \in supplied : i <= j]
                IN  /\ lastCall.error = NoRegistryError
                    /\ \A i \in 1..Len(g) :
                          /\ g[i] # b => Resolve(capabilityAliases, g[i]) = b
                          /\ hasCapability(Manager, g[i])

\* C15: an alias registration whose canonical id no provider has registered
\* raises and changes no mapping; every value of the alias map is a
\* capability id registered in the capability registry, so one resolution
\* step from any id with an alias ends at a registered capability.
C15_AliasesPointAtRegisteredCapabilities ==
    /\ \A c \in DOMAIN capabilityAliases :
          capabilityAliases[c] # "" =>
              /\ RegistryHasCapability(capabilityRegistry, capabilityAliases[c])
              /\ Resolve(capabilityAliases, c) = capabilityAliases[c]
    /\ (/\ lastCall.op \in {"registerCapabilityAliases", "registerCapabilityAlias"}
        /\ lastCall.error # NoRegistryError) =>
              /\ ~lastCall.changed
              /\ lastCall.error.message = "Capability not found"
              /\ ~RegistryHasCapability(capabilityRegistry, lastCall.error.id)
    /\ lastCall.op = "registerCapabilityAlias" =>
          (lastCall.error = NoRegistryError <=>
              RegistryHasCapability(capabilityRegistry, lastCall.canonicalId))

\* A group was rejected while the alias map held a mapping.
C15_Witness ==
    /\ lastCall.op = "registerCapabilityAliases"
    /\ lastCall.error # NoRegistryError
    /\ \E c \in DOMAIN capabilityAliases : capabilityAliases[c] # ""

\* C16: registering a provider records it for every capability it exposes;
\* a capability without a default gets the provider as its default, a
\* capability with a default keeps it; a default, once set, is changed by
\* setDefaultModelForCapability only.
C16_FirstProviderStaysDefault ==
    [][/\ lastCall'.op = "registerModelProvider" =>
            \A c \in CapabilityIds :
                /\ c \in lastCall'.provider.capabilities =>
                       lastCall'.provider.id \in capabilityRegistry'.capabilities[c]
                /\ capabilityRegistry.capabilities[c] \subseteq
                       capabilityRegistry'.capabilities[c]
                /\ capabilityRegistry'.defaults[c] =
                       IF capabilityRegistry.defaults[c] # ""
                       THEN capabilityRegistry.defaults[c]
                       ELSE IF c \in lastCall'.provider.capabilities
                       THEN lastCall'.provider.id ELSE ""
       /\ \A c \in CapabilityIds :
            (/\ capabilityRegistry.defaults[c] # ""
             /\ capabilityRegistry'.defaults[c] # capabilityRegistry.defaults[c])
                => lastCall'.op = "setDefaultModelForCapability"]_vars

\* A second provider of a capability was registered and the first is still
\* the default.
C16_Witness ==
    /\ lastCall.op = "registerModelProvider"
    /\ Len(models) = 2
    /\ \E c \in lastCall.provider.capabilities :
          /\ Cardinality(capabilityRegistry.capabilities[c]) = 2
          /\ capabilityRegistry.defaults[c] # lastCall.provider.id

(***************************************************************************)
(* Claims about executeCapability (checked under SpecExecute)              *)
(***************************************************************************)
\* The checks of a call, read from the manager and the call's arguments.
CallResolved == Resolve(capabilityAliases, lastCall.capabilityId)
CallModel ==
    IF lastCall.modelId # "" THEN lastCall.modelId
    ELSE capabilityRegistry.defaults[CallResolved]
CallModelRegistered == \E i \in 1..Len(models) : models[i].key = CallModel
CallCapabilityExposed ==
    \E i \in 1..Len(models) :
        /\ models[i].key = CallModel
        /\ CallResolved \in models[i].value.capabilities

\* C17: executeCapability fails at the first of these that does not hold:
\* a provider id is given or the resolved capability has a default ("no
\* model"); that provider is registered ("unknown model"); it exposes the
\* resolved capability ("capability not found on model"); the input conforms
\* to the input schema ("invalid input").  capability.execute is invoked
\* once when all hold and not at all otherwise, and only with an input that
\* conforms.
C17_ChecksInOrderThenOneInvocation ==
    lastCall.op = "executeCapability" =>
        /\ lastCall.resolved = CallResolved
        /\ lastCall.error =
              IF CallModel = "" THEN "No model specified and no default model set"
              ELSE IF ~CallModelRegistered THEN "Unknown model"
              ELSE IF ~CallCapabilityExposed THEN "Capability not found on model"
              ELSE IF ~Conforms(lastCall.input) THEN "Invalid input"
              ELSE lastCall.error
        /\ lastCall.invoked =
              IF /\ CallModel # ""
                 /\ CallModelRegistered
                 /\ CallCapabilityExposed
                 /\ Conforms(lastCall.input)
              THEN 1 ELSE 0
        /\ lastCall.invoked = 1 =>
              /\ lastCall.invokedWith = lastCall.input
              /\ Conforms(lastCall.invokedWith)
              /\ lastCall.error \in {"none", "provider error", "ZodError"}

\* A call with an input that does not conform failed for the capability
\* missing on the provider, the earlier check.
C17_Witness ==
    /\ lastCall.op = "executeCapability"
    /\ lastCall.error = "Capability not found on model"
    /\ ~Conforms(lastCall.input)
    /\ lastCall.resolved # lastCall.capabilityId

\* C18: executeCapability returns only a result of capability.execute that
\* conforms to the output schema; a result that does not conform is not
\* returned, the call raises.
C18_OnlyValidatedResultsAreReturned ==
    lastCall.op = "executeCapability" =>
        /\ lastCall.returned =>
              /\ lastCall.invoked = 1
              /\ lastCall.value = lastCall.result
              /\ Conforms(lastCall.value)
        /\ (lastCall.result # NoResult /\ ~Conforms(lastCall.result)) =>
              /\ ~lastCall.returned
              /\ lastCall.value = NoResult
              /\ lastCall.error = "ZodError"

\* The provider's result did not conform.
C18_Witness ==
    /\ lastCall.op = "executeCapability"
    /\ lastCall.result # NoResult
    /\ ~Conforms(lastCall.result)

\* C19: a call of executeCapability, failed or not, leaves the provider map,
\* the capability registry with its defaults and the alias map as they were;
\* every call that returns has invoked capability.execute once, also when the
\* call before it was the same call and returned.
C19_NoSideEffectNoCaching ==
    [][lastCall'.op = "executeCapability" =>
          /\ UNCHANGED <<models, capabilityRegistry, capabilityAliases>>
          /\ lastCall'.returned => lastCall'.invoked = 1
          /\ (lastCall'.repeat /\ lastCall'.returned) =>
                 lastCall.invoked + lastCall'.invoked = 2]_vars

\* The same successful call was made twice in a row.
C19_Witness ==
    /\ lastCall.op = "executeCapability"
    /\ lastCall.repeat
    /\ lastCall.returned
    /\ lastCall.invoked = 1

(***************************************************************************)
(* Claims about startup (checked under SpecStartup)                        *)
(***************************************************************************)
\* C20: when the health check of a registered provider has failed,
\* Runtime.init has raised for it: no Runtime exists, no plug-in was
\* registered or initialised and nothing was started.  The health checks of
\* all registered providers are started together, and init gets past them
\* only when every one has passed.
C20_FailedHealthCheckAbortsStartup ==
    /\ (\E p \in DOMAIN startup.health : startup.health[p] = "failed") =>
          /\ startup.pc = "failed"
          /\ startup.error = "health check failed"
          /\ plugins = <<>>
          /\ startup.pluginInit = <<>>
          /\ ~isRunning
    /\ startup.health # <<>> =>
          DOMAIN startup.health = Elements(MapKeys(models))
    /\ startup.pc \in {"memoryInit", "memoryHealth", "pluginInit", "done"} =>
          /\ models # <<>>
          /\ \A i \in 1..Len(models) :
                /\ models[i].key \in DOMAIN startup.health
                /\ startup.health[models[i].key] = "passed"
    /\ isRunning => startup.pc = "done"

\* One provider's health check failed while the other's had passed.
C20_Witness ==
    \E p, q \in DOMAIN startup.health :
        /\ startup.health[p] = "failed"
        /\ startup.health[q] = "passed"
        /\ startup.pc = "failed"

\* C21: Runtime.init raises and returns no Runtime when hasCapability,
\* which resolves aliases, is false of text-generation once the health
\* checks have passed, or false of a capability that a registered plug-in
\* requires once the plug-ins are initialised; it does not raise for the
\* one or the other reason when the capability is there, and returns a
\* Runtime when nothing else has failed.
C21_MissingCapabilityAbortsStartup ==
    LET missing == {c \in REQUIRED_CAPABILITIES : ~hasCapability(Manager, c)}
        unmet == {i \in 1..Len(plugins) :
                     \E c \in RequiredCapabilities(plugins[i].key) :
                         ~hasCapability(Manager, c)}
        healthy == startup.health # <<>> /\ AllAre(startup.health, "passed")
        initialised == startup.pluginInit # <<>>
                           /\ AllAre(startup.pluginInit, "initialized")
    IN  /\ (healthy /\ missing # {}) =>
              /\ startup.pc = "failed"
              /\ startup.error = "required capability missing"
        /\ (initialised /\ unmet # {}) =>
              /\ startup.pc = "failed"
              /\ startup.error = "plugin capability missing"
        /\ startup.error = "required capability missing" => (healthy /\ missing # {})
        /\ startup.error = "plugin capability missing" => (initialised /\ unmet # {})
        /\ (initialised /\ unmet = {}) => startup.pc = "done"
        /\ startup.pc = "done" => (missing = {} /\ unmet = {})
        /\ startup.pc = "failed" => ~isRunning

\* A plug-in requires a capability that no provider registered, while
\* text-generation is there.
C21_Witness ==
    /\ startup.pc = "failed"
    /\ startup.error = "plugin capability missing"
    /\ hasCapability(Manager, "text-generation")
    /\ Len(plugins) = 2

\* C22: plugin.init is called once for every registered plug-in and for
\* nothing else, and only when the init and the health check of every model
\* provider have settled, every health check has passed, and the memory
\* manager's init and health check have succeeded.
C22_PluginInitOnceAfterModelAndMemory ==
    /\ startup.pluginInitCalls # <<>> =>
          /\ startup.init # <<>>
          /\ \A p \in DOMAIN startup.init : startup.init[p] # "pending"
          /\ DOMAIN startup.health = DOMAIN startup.init
          /\ AllAre(startup.health, "passed")
          /\ startup.memory = [init |-> "initialized", health |-> "passed"]
    /\ \A i, j \in 1..Len(startup.pluginInitCalls) :
          i # j => startup.pluginInitCalls[i] # startup.pluginInitCalls[j]
    /\ Elements(startup.pluginInitCalls) = DOMAIN startup.pluginInit
    /\ startup.pc \in {"pluginInit", "done"} =>
          Elements(startup.pluginInitCalls) = Elements(MapKeys(plugins))
    /\ startup.pc \in {"idle", "modelInit", "health", "memoryInit", "memoryHealth"} =>
          startup.pluginInitCalls = <<>>

\* The init of two plug-ins was called and startup is done.
C22_Witness ==
    /\ startup.pc = "done"
    /\ Len(startup.pluginInitCalls) = 2

\* C23: an exception that leaves the processing of an event leaves the
\* evaluation loop: start() rejects with it and the running flag is false;
\* the loop that failed does nothing more, and while no loop is at work no
\* event leaves the queue and the flag stays false until start() is called.
C23_EscapedErrorEndsTheLoop ==
    [][ /\ \A l \in LoopIds :
            /\ (loops[l].pc # "failed" /\ loops'[l].pc = "failed") =>
                  /\ ~isRunning'
                  /\ loops'[l].outcome \in {"TypeError", "history rejected",
                                            "store rejected", "Plugin ID not found"}
                  /\ (loops[l].pc = "persisting" /\ memory'.assistant = memory.assistant)
                        => (loops'[l].outcome = "store rejected" /\ eventQueue' = eventQueue)
                  /\ Len(eventQueue') >= Len(eventQueue) - 1
            /\ (loops[l].pc = "failed" /\ loops'[l] # loops[l]) => Start
        /\ (\A l \in LoopIds : loops[l].pc \in {"none", "failed", "exited"}) =>
              \/ Start
              \/ /\ ~isRunning'
                 /\ Len(eventQueue') >= Len(eventQueue)
                 /\ hist'.planned = hist.planned
                 /\ loops' = loops ]_vars

\* storeAssistantInteraction rejected while another event waits in the queue.
C23_Witness ==
    /\ \E l \in LoopIds : loops[l].pc = "failed" /\ loops[l].outcome = "store rejected"
    /\ ~isRunning
    /\ eventQueue # <<>>
    /\ memory.assistant = <<>>

\* How often e occurs in a sequence.
Occurrences(seq, e) == Cardinality({i \in 1..Len(seq) : seq[i] = e})

\* C24: an event handed to push is appended to the queue only when its
\* history has been fetched and attached to its first chain item and its
\* user message has been stored; when the fetch or the store rejects, push
\* rejects and the event is never appended.
C24_PushEnqueuesAfterHistoryAndStore ==
    \A e \in EventIds :
        events[e].by \in {"createEvent", "trigger"} =>
            /\ Occurrences(hist.appended, e) > 0 =>
                  /\ events[e].stage = "queued"
                  /\ Occurrences(hist.appended, e) = 1
                  /\ "messageHistory" \in DOMAIN contextChain[e][1]
                  /\ events[e].by = "createEvent" =>
                        /\ contextChain[e][1].messageHistory = "history"
                        /\ Occurrences(memory.user, e) = 1
            /\ events[e].stage \in {"history", "storing", "failed"} =>
                  /\ Occurrences(hist.appended, e) = 0
                  /\ Occurrences(eventQueue, e) = 0
            /\ events[e].stage \in {"history", "failed"} =>
                  Occurrences(memory.user, e) = 0

\* The push of the first event was rejected, the push of the second was not.
C24_Witness ==
    /\ events[1] = [stage |-> "failed", by |-> "createEvent"]
    /\ events[2] = [stage |-> "queued", by |-> "createEvent"]
    /\ hist.appended = <<2>>
    /\ memory.user = <<2>>

\* The events that have left the queue.
Dequeued ==
    {e \in EventIds : Occurrences(hist.appended, e) > 0 /\ Occurrences(eventQueue, e) = 0}

\* C25: every event the loop takes from the queue came in through push:
\* its first chain item carries the history and, when it holds a user
\* input, its user message has been stored exactly once.
C25_DequeuedEventsWentThroughPush ==
    \A e \in Dequeued :
        /\ events[e].by \in {"createEvent", "trigger"}
        /\ "messageHistory" \in DOMAIN contextChain[e][1]
        /\ getUserInput(<<contextChain[e][1]>>) # <<>> => Occurrences(memory.user, e) = 1

\* The loop is about to persist an event whose plan was the one step of the
\* time plug-in, which resolved with data, and whose modification was
\* answered with shouldModify = false.
OneTimeStepDone(l) ==
    /\ loops[l].pc = "persisting"
    /\ loops[l].plan = "returned"
    /\ loops[l].pipeline = <<TimeStep>>
    /\ loops[l].executed = <<[step |-> TimeStep, result |-> "data"]>>
    /\ loops[l].mod # <<>>
    /\ ~loops[l].mod[1].raised
    /\ ~loops[l].mod[1].modification.shouldModify

\* C26: for an event whose plan is one step that succeeds with data and
\* whose modification answers shouldModify = false, one context item that
\* carries the data is appended, and the response that is persisted is the
\* string the step produced.
C26_PersistedResponseIsTheStepData ==
    /\ \A l \in LoopIds :
          OneTimeStepDone(l) =>
              LET chain == contextChain[loops[l].ctx[1]]
              IN  /\ Len(chain) = 2
                  /\ chain[2] = StepResultItem(TimeStep, TimeData)
                  /\ ResponseOf(chain) \in {TimeData.currentTime, Stringify(TimeData)}
    /\ \A i \in 1..Len(memory.assistant) :
          LET r == memory.assistant[i]
          IN  (Len(r.chain) = 2 /\ r.chain[2] = StepResultItem(TimeStep, TimeData)) =>
                  r.response \in {TimeData.currentTime, Stringify(TimeData)}

\* The chain alone: one item is appended and it carries the data of the step.
OneItemCarriesTheData ==
    \A l \in LoopIds :
        OneTimeStepDone(l) =>
            LET chain == contextChain[loops[l].ctx[1]]
            IN  /\ Len(chain) = 2
                /\ chain[2] = StepResultItem(TimeStep, TimeData)
                /\ chain[2].currentTime = TimeData.currentTime

\* C27: when getObject raises after an attempt, every attempt of its budget
\* has been made and the error is the one of the last attempt: the error the
\* model threw in it, or the error of parsing and validating its response.
\* While attempts remain nothing has been raised.
C27_OnlyTheFinalFailureEscapes ==
    /\ (go.pc = "raised" /\ Invocations >= 1) =>
          LET b == Last(goLog).behaviour
          IN  /\ Invocations = MaxRetries(goImpl, goConfig)
              /\ go.thrown.attempt = Invocations - 1
              /\ b.kind = "throw" => go.thrown.kind = "ModelError"
              /\ b.kind = "response" =>
                    go.thrown = ParseResponse(goSchema, b.response, Invocations - 1).error
    /\ go.pc # "raised" => go.thrown = NoError

\* Runtime.getObject: the model threw in the first attempt and answered text
\* that does not parse in the third and last one.
C27_Witness ==
    /\ goImpl = "part_001"
    /\ go.pc = "raised"
    /\ Invocations = 3
    /\ goLog[1].behaviour.kind = "throw"
    /\ goLog[3].behaviour.kind = "response"
    /\ go.thrown = [kind |-> "SyntaxError", attempt |-> 2]

\* C28: the first attempt sends the generate-object request; every later
\* attempt sends the retry request with what the attempt before it recorded:
\* its response and the error of parsing it when the model answered, and
\* the error the model threw when it did not, with no response of an
\* earlier attempt.
C28_RetryRequestCarriesThePreviousAttempt ==
    \A k \in 1..Len(goLog) :
        LET request == goLog[k].request
        IN  IF k = 1
            THEN request = [template |-> "generateObjectTemplate",
                            lastResponse |-> EmptyResponse, error |-> NoError]
            ELSE LET previous == goLog[k - 1].behaviour
                 IN  /\ request.template = "generateRetryTemplate"
                     /\ previous.kind = "response" =>
                           /\ request.lastResponse = previous.response
                           /\ request.error =
                                 ParseResponse(goSchema, previous.response, k - 2).error
                     /\ previous.kind = "throw" =>
                           /\ request.error = [kind |-> "ModelError", attempt |-> k - 2]
                           /\ request.lastResponse = EmptyResponse

\* The error clause of the above alone.
RetryRequestCarriesThePreviousError ==
    \A k \in 2..Len(goLog) :
        goLog[k - 1].behaviour.kind = "throw" =>
            goLog[k].request.error = [kind |-> "ModelError", attempt |-> k - 2]

\* The loops that are inside executePipeline's while loop.
InPipeline(L) == L.pc \in {"executing", "modifying"}

\* C29: within one event the step index starts at 0 and moves by one, from
\* a step to the next, and never back: the steps executed so far are the
\* first entries of the plan, possibly spliced, one execution each. While
\* the modification decision for a step is awaited the index stays, and the
\* next step starts only when that decision has been applied (no decision
\* is taken for a step whose executor threw).
C29_StepsRunInSequence ==
    [][\A l \in LoopIds :
        LET L == loops[l]
            N == loops'[l]
        IN  /\ (InPipeline(N) /\ ~InPipeline(L)) => (N.idx = 0 /\ N.executed = <<>>)
            /\ InPipeline(N) =>
                  /\ N.idx < Len(N.pipeline)
                  /\ Len(N.executed) = N.idx + (IF N.pc = "modifying" THEN 1 ELSE 0)
                  /\ \A j \in 1..Len(N.executed) : N.executed[j].step = N.pipeline[j]
            /\ (InPipeline(N) /\ InPipeline(L) /\ N # L) =>
                  /\ N.idx \in {L.idx, L.idx + 1}
                  /\ N.idx = L.idx <=> N.pc = "modifying"
                  /\ SubSeq(N.pipeline, 1, L.idx + 1) = SubSeq(L.pipeline, 1, L.idx + 1)
                  /\ SubSeq(N.executed, 1, Len(L.executed)) = L.executed
            /\ (N.pc = "persisting" /\ InPipeline(L)) =>
                  (L.idx + 1 = Len(N.pipeline) /\ Len(N.executed) = L.idx + 1)
            /\ (L.pc = "modifying" /\ N.pc # "modifying") =>
                  (N.mod # <<>> /\ N.mod[1].idx = L.idx)
            /\ (L.pc = "executing" /\ N.pc = "executing" /\ N # L) =>
                  Last(N.executed).result = "throw"
            /\ (N.pc = "executing" /\ N.idx > 0 /\ N.executed[N.idx].result # "throw") =>
                  (N.mod # <<>> /\ N.mod[1].idx = N.idx - 1)]_vars

\* The second step of a plan that was spliced after the first is about to
\* run.
C29_Witness ==
    \E l \in LoopIds :
        /\ loops[l].pc = "executing"
        /\ loops[l].idx = 1
        /\ loops[l].mod # <<>>
        /\ loops[l].mod[1].idx = 0
        /\ loops[l].mod[1].modification.shouldModify
        /\ loops[l].mod[1].before # loops[l].pipeline

\* The events whose assistant result is in the memory.
PersistedEvents == {memory.assistant[i].event : i \in 1..Len(memory.assistant)}

C31_EventWithoutUserInputIsProcessed ==
    \A e \in Dequeued :
        getUserInput(contextChain[e]) = <<>> =>
            /\ Occurrences(hist.planned, e) = 1
            /\ \A l \in LoopIds :
                  ~(loops[l].ctx = <<e>> /\ loops[l].outcome = "TypeError")

\* C32: when the timer and every awaited call come back, an event that is
\* in the queue is taken from it and processed to its persisted result,
\* unless the runtime stops running: a loop that finds the queue empty
\* sleeps and looks again.
C32_QueuedEventsAreProcessed ==
    \A e \in EventIds :
        (Occurrences(eventQueue, e) > 0) ~> (~isRunning \/ e \in PersistedEvents)

\* Both events were processed and the runtime is still running.
C32_Witness ==
    /\ isRunning
    /\ PersistedEvents = {1, 2}
    /\ \E l \in LoopIds : loops[l].pc = "sleeping"

\* The loops that are not at work.
IdleLoop(L) == L.pc \in {"none", "exited", "failed"}

C34_OneDecisionPerReturnedStep ==
    [][\A l \in LoopIds :
        LET L == loops[l]
            N == loops'[l]
            e == L.ctx[1]
        IN  /\ (L.pc = "executing" /\ N # L) =>
                  /\ Len(N.executed) = Len(L.executed) + 1
                  /\ IF Last(N.executed).result = "throw"
                     THEN /\ N.pc # "modifying"
                          /\ N.mod = L.mod
                          /\ N.pipeline = L.pipeline
                          /\ N.go = NoCall
                     ELSE /\ N.pc = "modifying"
                          /\ N.idx = L.idx
                          /\ N.mod = L.mod
                          /\ N.go = GetObjectCall
                          /\ contextChain'[e] # contextChain[e]
            /\ (N.pc = "modifying" /\ L.pc # "modifying") => L.pc = "executing"
            /\ (L.pc = "modifying" /\ N # L) =>
                  /\ contextChain'[e] = contextChain[e]
                  /\ \/ N.pc = "modifying" /\ N.mod = L.mod /\ N.pipeline = L.pipeline
                     \/ /\ N.pc # "modifying"
                        /\ N.mod # <<>>
                        /\ N.mod[1].idx = L.idx
                        /\ N.mod[1].before = L.pipeline
            /\ (~InPipeline(L) /\ N # L) =>
                  (N.mod = <<>> \/ N.mod = L.mod)
            /\ N.mod # <<>> =>
                  /\ N.mod[1].idx < N.idx
                  /\ N.executed[N.mod[1].idx + 1].result # "throw"
            /\ (N.pc = "failed" /\ N.outcome = "Plugin ID not found") =>
                  (N.go = NoCall /\ Len(N.executed) = N.idx)
      ]_vars

\* The executor of the first step threw and the second step is about to run:
\* no decision was asked for.
C34_Witness ==
    \E l \in LoopIds :
        /\ loops[l].pc = "executing"
        /\ loops[l].idx = 1
        /\ loops[l].executed[1].result = "throw"
        /\ loops[l].mod = <<>>

\* C35: executePipeline comes to the end of its plan (or is left by an
\* error) whatever modification decisions the model returns.
C35_ExecutePipelineTerminates ==
    <>(loops[1].pc \in {"exhausted", "failed"})

\* C36: an event that has been dequeued and whose processing has neither
\* persisted its result nor failed is the runtime's current context, and
\* the current-context slot is empty while every loop is idle.
C36_EventInFlightIsTheCurrentContext ==
    /\ \A l \in LoopIds : InPipeline(loops[l]) \/ loops[l].pc = "persisting"
            => currentContext = loops[l].ctx
    /\ (\A l \in LoopIds : IdleLoop(loops[l])) => currentContext = <<>>

\* The queue q with its first n entries taken away.
Drop(q, n) == SubSeq(q, n + 1, Len(q))

\* C37: no event is in the queue twice and an event that has left the queue
\* never comes back, so an event is dequeued at most once. In one step the
\* queue loses at most its head, taken by a loop, and gains at its tail only
\* events that were never enqueued before. The event of a loop that fails is
\* not in the queue afterwards and, unless it had been persisted before the
\* loop went on to the next event, is not persisted; the events behind it
\* keep their places and their order.
C37_EventsLeaveTheQueueOnceByDequeue ==
    [][ /\ \A e \in EventIds :
            /\ Occurrences(eventQueue', e) <= 1
            /\ e \in Dequeued => Occurrences(eventQueue', e) = 0
        /\ \E n \in {0, 1} : \E new \in SeqsUpTo(EventIds, 1) :
            /\ n <= Len(eventQueue)
            /\ eventQueue' = Drop(eventQueue, n) \o new
            /\ \A i \in 1..Len(new) : Occurrences(hist.appended, new[i]) = 0
            /\ n = 1 => /\ new = <<>>
                        /\ \E l \in LoopIds : /\ loops'[l].ctx = <<Head(eventQueue)>>
                                              /\ loops[l].ctx # <<Head(eventQueue)>>
        /\ \A l \in LoopIds : (loops[l].pc # "failed" /\ loops'[l].pc = "failed") =>
            \E e \in EventIds :
                /\ loops'[l].ctx = <<e>>
                /\ Occurrences(eventQueue', e) = 0
                /\ e \in PersistedEvents' => e \in PersistedEvents
                /\ eventQueue' = IF loops[l].ctx = <<e>> THEN eventQueue
                                 ELSE Tail(eventQueue)
      ]_vars

\* A loop failed while it persisted event 1; event 2 is still queued and
\* nothing was persisted.
C37_Witness ==
    /\ \E l \in LoopIds : /\ loops[l].pc = "failed"
                          /\ loops[l].ctx = <<1>>
                          /\ loops[l].outcome = "store rejected"
    /\ eventQueue = <<2>>
    /\ memory.assistant = <<>>
    /\ hist.appended = <<1, 2>>

\* C38: for every configured maxRetries, a getObject call that completes
\* normally has made at least one model invocation, and the response of its
\* last invocation parsed and passed the schema: it returns a value.
C38_NormalCompletionHasAValidatedResponse ==
    go.pc = "returned" =>
        /\ Invocations >= 1
        /\ \E j \in 1..Invocations : IsValidResponse(goLog[j].behaviour)
        /\ go.result # <<>>

\* The same for every configuration except a negative maxRetries on
\* Runtime.getObject.
C38_HoldsUnlessNegativeOnRuntime ==
    ~(goImpl = "part_001" /\ goConfig # <<>> /\ goConfig[1] < 0)
        => C38_NormalCompletionHasAValidatedResponse

\* The id of the last hasCapability or executeCapability call is registered
\* as an alias and is also supplied directly by a provider.
CallOfShadowedAlias ==
    /\ lastCall.op \in {"hasCapability", "executeCapability"}
    /\ capabilityAliases[lastCall.capabilityId] # ""
    /\ capabilityRegistry.capabilities[lastCall.capabilityId] # {}

\* The registered provider with this id supplies the capability.
Supplies(modelId, capabilityId) ==
    \E i \in 1..Len(models) :
        models[i].key = modelId /\ capabilityId \in models[i].value.capabilities

\* C39: a lookup of an id that is an alias and also a directly supplied
\* capability goes to the canonical id: hasCapability answers true;
\* executeCapability without a provider id takes the canonical id's default
\* provider and invokes the canonical capability on it, and with the id of
\* a provider that supplies the alias id but not the canonical one it fails
\* with 'capability not found on model' without invoking anything.
C39_DirectlySuppliedAliasIsRedirected ==
    CallOfShadowedAlias =>
        LET canonicalId == capabilityAliases[lastCall.capabilityId]
        IN  /\ lastCall.op = "hasCapability" =>
                  /\ lastCall.value
                  /\ lastCall.value = RegistryHasCapability(capabilityRegistry, canonicalId)
            /\ lastCall.op = "executeCapability" =>
                  /\ lastCall.resolved = canonicalId
                  /\ lastCall.modelId = "" =>
                        /\ lastCall.model = capabilityRegistry.defaults[canonicalId]
                        /\ lastCall.model # ""
                        /\ (Supplies(lastCall.model, canonicalId) /\ Conforms(lastCall.input))
                              => lastCall.invoked = 1
                  /\ lastCall.invoked = 1 => Supplies(lastCall.model, canonicalId)
                  /\ (/\ lastCall.modelId # ""
                      /\ Supplies(lastCall.modelId, lastCall.capabilityId)
                      /\ ~Supplies(lastCall.modelId, canonicalId)) =>
                        /\ lastCall.error = "Capability not found on model"
                        /\ lastCall.invoked = 0
                        /\ ~lastCall.returned

\* executeCapability("text-creation", input, config, "ollama") failed although
\* ollama supplies text-creation: the id is an alias of text-generation.
C39_Witness ==
    /\ CallOfShadowedAlias
    /\ lastCall.op = "executeCapability"
    /\ lastCall.capabilityId = "text-creation"
    /\ lastCall.modelId = "ollama"
    /\ Supplies("ollama", "text-creation")
    /\ capabilityAliases["text-creation"] = "text-generation"
    /\ lastCall.error = "Capability not found on model"

(***************************************************************************)
(* The Discord message trigger (plugin-discord/src/triggers.ts):           *)
(* handleMessage runs once per MessageCreate event, and the handlers of    *)
(* several messages interleave at their awaits. plugins holds the          *)
(* service's isProcessing flag, loops the position of each message's       *)
(* handler, memory the messages stored by storeUserInteraction, hist the   *)
(* messages for which createEvent was called, eventQueue those for which   *)
(* it resolved.                                                            *)
(***************************************************************************)
MaxMessages == 2
MessageIds == 1..MaxMessages

\* A message that has not arrived yet; locked says that this handler has
\* executed discordService.isProcessing = true.
NoMessage == [pc |-> "pending", locked |-> FALSE]

DiscordInit ==
    /\ world = [source |-> "triggers.ts"]
    /\ plugins = [isProcessing |-> FALSE]
    /\ loops = [m \in MessageIds |-> NoMessage]
    /\ memory = <<>>
    /\ hist = <<>>
    /\ eventQueue = <<>>
    /\ isRunning = TRUE
    /\ currentContext = <<>>
    /\ contextChain = <<>>
    /\ events = <<>>
    /\ models = <<>>
    /\ capabilityRegistry = <<>>
    /\ capabilityAliases = <<>>
    /\ lastCall = <<>>
    /\ startup = <<>>
    /\ GoIdle

DiscordUnchanged ==
    UNCHANGED <<goVars, world, isRunning, currentContext, contextChain, events,
                models, capabilityRegistry, capabilityAliases, lastCall, startup>>

\* The catch block of handleMessage: the flag is cleared, whoever set it.
Catch(m) ==
    /\ plugins' = [plugins EXCEPT !.isProcessing = FALSE]
    /\ loops' = [loops EXCEPT ![m].pc = "failed"]

\* handleMessage(message) up to its first await: the three filters, then
\* the test of isProcessing.
MessageArrives(m) ==
    /\ loops[m].pc = "pending"
    /\ \E passes \in BOOLEAN :
        loops' = [loops EXCEPT ![m].pc =
                     IF ~passes THEN "ignored"
                     ELSE IF plugins.isProcessing THEN "skipStoring"
                     ELSE "history"]
    /\ UNCHANGED <<plugins, memory, hist, eventQueue>>
    /\ DiscordUnchanged

\* The awaited storeUserInteraction of a message that found the lock taken.
SkipStored(m) ==
    /\ loops[m].pc = "skipStoring"
    /\ \/ /\ memory' = Append(memory, m)
          /\ loops' = [loops EXCEPT ![m].pc = "skipped"]
          /\ UNCHANGED plugins
       \/ /\ Catch(m)
          /\ UNCHANGED memory
    /\ UNCHANGED <<hist, eventQueue>>
    /\ DiscordUnchanged

\* The awaited getRecentConversationHistory.
IntentHistoryFetched(m) ==
    /\ loops[m].pc = "history"
    /\ \/ /\ loops' = [loops EXCEPT ![m].pc = "intent"]
          /\ UNCHANGED plugins
       \/ Catch(m)
    /\ UNCHANGED <<memory, hist, eventQueue>>
    /\ DiscordUnchanged

\* The awaited getObject of the intent check: it throws, or answers that the
\* message is for the agent (the lock is set and createEvent called) or is
\* not (storeUserInteraction called).
IntentDecided(m) ==
    /\ loops[m].pc = "intent"
    /\ \/ /\ plugins' = [plugins EXCEPT !.isProcessing = TRUE]
          /\ loops' = [loops EXCEPT ![m] = [pc |-> "creating", locked |-> TRUE]]
          /\ hist' = Append(hist, m)
       \/ /\ loops' = [loops EXCEPT ![m].pc = "storing"]
          /\ UNCHANGED <<plugins, hist>>
       \/ /\ Catch(m)
          /\ UNCHANGED hist
    /\ UNCHANGED <<memory, eventQueue>>
    /\ DiscordUnchanged

\* The awaited runtime.createEvent.
EventCreated(m) ==
    /\ loops[m].pc = "creating"
    /\ \/ /\ eventQueue' = Append(eventQueue, m)
          /\ loops' = [loops EXCEPT ![m].pc = "created"]
          /\ UNCHANGED plugins
       \/ /\ Catch(m)
          /\ UNCHANGED eventQueue
    /\ UNCHANGED <<memory, hist>>
    /\ DiscordUnchanged

\* The awaited storeUserInteraction of a message not meant for the agent.
MessageStored(m) ==
    /\ loops[m].pc = "storing"
    /\ \/ /\ memory' = Append(memory, m)
          /\ loops' = [loops EXCEPT ![m].pc = "stored"]
          /\ UNCHANGED plugins
       \/ /\ Catch(m)
          /\ UNCHANGED memory
    /\ UNCHANGED <<hist, eventQueue>>
    /\ DiscordUnchanged

DiscordNext ==
    \/ \E m \in MessageIds : MessageArrives(m)
    \/ \E m \in MessageIds : SkipStored(m)
    \/ \E m \in MessageIds : IntentHistoryFetched(m)
    \/ \E m \in MessageIds : IntentDecided(m)
    \/ \E m \in MessageIds : EventCreated(m)
    \/ \E m \in MessageIds : MessageStored(m)

SpecDiscord == DiscordInit /\ [][DiscordNext]_vars

(***************************************************************************)
(* Claims about the Discord message trigger (checked under SpecDiscord)    *)
(***************************************************************************)
\* The intent check of the message is in flight.
IntentCheckInFlight(m) == loops[m].pc \in {"history", "intent"}

\* C40: a message's handler calls createEvent only when the lock was free
\* and no other message's intent check was in flight; a message that
\* arrives while the lock is held is only stored; and a handler's error
\* clears the lock only when that handler had taken it.
C40_LockAdmitsOneMessageAtATime ==
    [][\A m \in MessageIds :
          /\ (loops[m].pc # "creating" /\ loops'[m].pc = "creating") =>
                /\ ~plugins.isProcessing
                /\ \A o \in MessageIds \ {m} : ~IntentCheckInFlight(o)
          /\ (loops[m].pc = "pending" /\ plugins.isProcessing) =>
                loops'[m].pc \in {"pending", "ignored", "skipStoring"}
          /\ loops[m].pc = "skipStoring" =>
                loops'[m].pc \in {"skipStoring", "skipped", "failed"}
          /\ (loops'[m].pc = "failed" /\ loops[m].pc # "failed"
                 /\ plugins.isProcessing /\ ~plugins'.isProcessing) =>
                loops[m].locked
      ]_vars

\* The part of C40 that the handler does keep: a message that arrives while
\* the lock is held is only stored and never creates an event.
C40_MessageUnderLockIsOnlyStored ==
    [][\A m \in MessageIds :
          /\ (loops[m].pc = "pending" /\ plugins.isProcessing) =>
                loops'[m].pc \in {"pending", "ignored", "skipStoring"}
          /\ loops[m].pc = "skipStoring" =>
                loops'[m].pc \in {"skipStoring", "skipped", "failed"}
      ]_vars

\* Two messages have both taken the lock and created an event.
C40_TwoEventsUnderOneLock ==
    /\ Len(eventQueue) = 2
    /\ \A m \in MessageIds : loops[m].locked

\* A message that was only to be stored failed and the lock of the message
\* being processed is gone.
C40_LockReleasedByAnotherMessage ==
    \E m, o \in MessageIds :
        /\ loops[m].pc = "created"
        /\ loops[o].pc = "failed" /\ ~loops[o].locked
        /\ ~plugins.isProcessing

====
